---------------------------- MODULE Spec2Model ----------------------------
(***************************************************************************)
(* Model of the recipe service of the Smart Recipe Generator backend:      *)
(* catalog filtering (Service.SearchAndFilterRecipes), ingredient overlap  *)
(* scoring (Service.MatchWithFilters) and favourites-based suggestions     *)
(* (Service.GetSuggestions) over a recipes table and a favorites table,    *)
(* and the caption parser and ingredient normaliser of package vision.     *)
(*                                                                         *)
(* A Go string is a sequence of one-character strings, so that ToLower,    *)
(* TrimSpace and Contains are computed and not assumed.                    *)
(***************************************************************************)
EXTENDS Integers, Sequences, FiniteSets, TLC

VARIABLES
    catalog,   \* the recipes table: a sequence of rows in ascending id order
    favorites, \* the favorites table: a sequence of rows in insertion order
    last       \* the last service call: its arguments, locals and result

vars == <<catalog, favorites, last>>

-----------------------------------------------------------------------------
(* Bounds of the model.                                                    *)

MaxCatalog == 2       \* most rows of the recipes table
MaxFavorites == 2     \* most rows of the favorites table
MaxLimit == 2         \* largest explicit limit argument
MaxOffset == 1        \* largest offset argument

-----------------------------------------------------------------------------
(* Strings.                                                                *)

UpperLetters ==
    <<"A","B","C","D","E","F","G","H","I","J","K","L","M",
      "N","O","P","Q","R","S","T","U","V","W","X","Y","Z">>

LowerLetters ==
    <<"a","b","c","d","e","f","g","h","i","j","k","l","m",
      "n","o","p","q","r","s","t","u","v","w","x","y","z">>

WhiteSpace == {" ", "\t", "\n", "\r"}

\* The lower-case letter of each upper-case letter.
LowerOf == [c \in {UpperLetters[i] : i \in 1..26} |->
               LowerLetters[CHOOSE i \in 1..26 : UpperLetters[i] = c]]

LowerChar(c) == IF c \in DOMAIN LowerOf THEN LowerOf[c] ELSE c

\* strings.ToLower
ToLower(s) == [i \in 1..Len(s) |-> LowerChar(s[i])]

RECURSIVE TrimLeft(_)
TrimLeft(s) ==
    IF s # <<>> /\ Head(s) \in WhiteSpace THEN TrimLeft(Tail(s)) ELSE s

RECURSIVE TrimRight(_)
TrimRight(s) ==
    IF s # <<>> /\ s[Len(s)] \in WhiteSpace
    THEN TrimRight(SubSeq(s, 1, Len(s) - 1))
    ELSE s

\* strings.TrimSpace
TrimSpace(s) == TrimRight(TrimLeft(s))

\* strings.Contains
Contains(s, substr) ==
    \E i \in 0..(Len(s) - Len(substr)) : SubSeq(s, i + 1, i + Len(substr)) = substr

Max(a, b) == IF a >= b THEN a ELSE b

Min(a, b) == IF a <= b THEN a ELSE b

-----------------------------------------------------------------------------
(* The strings of the model's recipes and requests.                        *)

sEmpty == << >>

sBlank == <<" "," ">>

sTomato == <<"t","o","m","a","t","o">>

sBasil == <<"b","a","s","i","l">>

sSoup == <<"s","o","u","p">>

sPastaPadded == <<" ","P","a","s","t","a"," ">>

sPasta == <<"p","a","s","t","a">>

sPastaCap == <<"P","a","s","t","a">>

sVegetarian == <<"v","e","g","e","t","a","r","i","a","n">>

sVegetarianPadded == <<" ","V","e","g","e","t","a","r","i","a","n"," ">>

sMeat == <<"m","e","a","t">>

sEasy == <<"e","a","s","y">>

sEasyUpper == <<"E","A","S","Y">>

sMedium == <<"m","e","d","i","u","m">>

sItalian == <<"i","t","a","l","i","a","n">>

sItalianCap == <<"I","t","a","l","i","a","n">>

sAsian == <<"a","s","i","a","n">>

sTomatoBasilSoup == <<"T","o","m","a","t","o"," ","B","a","s","i","l"," ","S","o","u","p">>

sSimpleTomatoPasta == <<"S","i","m","p","l","e"," ","T","o","m","a","t","o"," ","P","a","s","t","a">>

sPenneArrabbiata == <<"P","e","n","n","e"," ","A","r","r","a","b","b","i","a","t","a">>

sMargheritaPizza == <<"M","a","r","g","h","e","r","i","t","a"," ","P","i","z","z","a">>

sPastaBake == <<"P","a","s","t","a"," ","B","a","k","e">>

sPlainRice == <<"P","l","a","i","n"," ","R","i","c","e">>

-----------------------------------------------------------------------------
(* Rows of the recipes table. A nullable column is a sql.NullString or a    *)
(* sql.NullInt32: a Valid flag and a value.                                 *)

Str(s) == [Valid |-> TRUE, String |-> s]

NullStr == [Valid |-> FALSE, String |-> << >>]

Int32(n) == [Valid |-> TRUE, Int32 |-> n]

NullInt == [Valid |-> FALSE, Int32 |-> 0]

Recipe(id, title, tags, difficulty, cuisine, cookTime) ==
    [ID |-> id, Title |-> title, Tags |-> tags, Difficulty |-> difficulty,
     Cuisine |-> cuisine, CookTimeMinutes |-> cookTime]

\* The recipes a catalog of the model is drawn from, by id.
RecipePool ==
    << Recipe(1, sTomatoBasilSoup, <<sTomato, sSoup>>, Str(sEasy), NullStr, Int32(20)),
       Recipe(2, sSimpleTomatoPasta, <<sVegetarian, sPasta>>, Str(sEasy), Str(sItalian), Int32(20)),
       Recipe(3, sPenneArrabbiata, <<sItalian, sPasta>>, Str(sMedium), Str(sItalian), Int32(25)),
       Recipe(4, sMargheritaPizza, <<sItalian, sVegetarian>>, Str(sMedium), Str(sItalianCap), Int32(30)),
       Recipe(5, sPastaBake, <<sPastaCap, sPasta>>, Str(sEasyUpper), Str(sItalianCap), NullInt),
       Recipe(6, sPlainRice, << >>, NullStr, Str(sAsian), Int32(10)) >>

RECURSIVE SeqOfIds(_, _)
SeqOfIds(ids, from) ==
    IF from > Len(RecipePool) THEN << >>
    ELSE (IF from \in ids THEN <<RecipePool[from]>> ELSE << >>) \o SeqOfIds(ids, from + 1)

\* The recipes tables of the model: at most MaxCatalog rows, in ascending id order.
Catalogs ==
    { SeqOfIds(ids, 1) : ids \in { S \in SUBSET (1..Len(RecipePool)) : Cardinality(S) <= MaxCatalog } }

Users == {1, 2}

Take(s, n) == SubSeq(s, 1, IF n < Len(s) THEN n ELSE Len(s))

Reverse(s) == [i \in 1..Len(s) |-> s[Len(s) + 1 - i]]

Range(s) == { s[i] : i \in 1..Len(s) }

-----------------------------------------------------------------------------
(* The queries of the persistence layer.                                   *)

\* SearchRecipes: WHERE title ILIKE '%' || $1 || '%' OR $1 = ANY(tags)
\* ORDER BY id LIMIT $2 OFFSET $3 (the service always passes OFFSET 0).
SearchRecipes(table, query, limit) ==
    Take(SelectSeq(table, LAMBDA r :
             \/ Contains(ToLower(r.Title), ToLower(query))
             \/ \E i \in 1..Len(r.Tags) : r.Tags[i] = query),
         limit)

\* GetRecipeByID: WHERE id = $1; the row, or no row.
HasRecipe(table, id) == \E i \in 1..Len(table) : table[i].ID = id

GetRecipeByID(table, id) == table[CHOOSE i \in 1..Len(table) : table[i].ID = id]

\* The favourites of every user are returned.
ListFavoritesOfAnyUser(table, favs, user) ==
    Reverse(SelectSeq(favs, LAMBDA f : HasRecipe(table, f.RecipeID)))

\* ListFavoritesByUser: favorites JOIN recipes WHERE user_id = $1
\* ORDER BY created_at DESC.
ListFavoritesByUser(table, favs, user) ==
    Reverse(SelectSeq(favs, LAMBDA f : f.UserID = user /\ HasRecipe(table, f.RecipeID)))

-----------------------------------------------------------------------------
(* Service.SearchAndFilterRecipes.                                         *)

FetchFloor == 200

FetchCap == 2000

\* fetchLimit := int32(math.Max(float64(limit+offset), 200)), capped at 2000
FetchLimit(limit, offset) ==
    LET fetchLimit == Max(limit + offset, FetchFloor)
    IN  IF fetchLimit > FetchCap THEN FetchCap ELSE fetchLimit

\* A *int argument: << >> is nil, <<n>> points to n.
Nil == << >>

\* Mutant of KeepRow: a row with no cook time passes a maximum time.
KeepRowMissingTimePasses(r, dietLower, diffLower, maxTimeMinutes, cuisineLower) ==
    /\ diffLower # sEmpty =>
          r.Difficulty.Valid /\ ToLower(r.Difficulty.String) = diffLower
    /\ cuisineLower # sEmpty =>
          r.Cuisine.Valid /\ ToLower(r.Cuisine.String) = cuisineLower
    /\ (maxTimeMinutes # Nil /\ r.CookTimeMinutes.Valid) =>
          r.CookTimeMinutes.Int32 <= maxTimeMinutes[1]
    /\ dietLower # sEmpty =>
          \E i \in 1..Len(r.Tags) : ToLower(r.Tags[i]) = dietLower

\* The first criterion that is set decides alone.
KeepRowFirstCriterion(r, dietLower, diffLower, maxTimeMinutes, cuisineLower) ==
    IF diffLower # sEmpty
    THEN r.Difficulty.Valid /\ ToLower(r.Difficulty.String) = diffLower
    ELSE IF cuisineLower # sEmpty
    THEN r.Cuisine.Valid /\ ToLower(r.Cuisine.String) = cuisineLower
    ELSE IF maxTimeMinutes # Nil
    THEN r.CookTimeMinutes.Valid /\ r.CookTimeMinutes.Int32 <= maxTimeMinutes[1]
    ELSE IF dietLower # sEmpty
    THEN \E i \in 1..Len(r.Tags) : ToLower(r.Tags[i]) = dietLower
    ELSE TRUE

\* The values of the row are trimmed before they are compared.
KeepRowTrimsRow(r, dietLower, diffLower, maxTimeMinutes, cuisineLower) ==
    IF diffLower # sEmpty
       /\ (~r.Difficulty.Valid \/ ToLower(TrimSpace(r.Difficulty.String)) # diffLower)
    THEN FALSE
    ELSE IF cuisineLower # sEmpty
            /\ (~r.Cuisine.Valid \/ ToLower(TrimSpace(r.Cuisine.String)) # cuisineLower)
    THEN FALSE
    ELSE IF maxTimeMinutes # Nil
            /\ (~r.CookTimeMinutes.Valid \/ r.CookTimeMinutes.Int32 > maxTimeMinutes[1])
    THEN FALSE
    ELSE IF dietLower # sEmpty
            /\ ~(\E i \in 1..Len(r.Tags) : ToLower(TrimSpace(r.Tags[i])) = dietLower)
    THEN FALSE
    ELSE TRUE

\* The body of the filter loop for one row: FALSE where the code continues.
KeepRow(r, dietLower, diffLower, maxTimeMinutes, cuisineLower) ==
    IF diffLower # sEmpty
       /\ (~r.Difficulty.Valid \/ ToLower(r.Difficulty.String) # diffLower)
    THEN FALSE
    ELSE IF cuisineLower # sEmpty
            /\ (~r.Cuisine.Valid \/ ToLower(r.Cuisine.String) # cuisineLower)
    THEN FALSE
    ELSE IF maxTimeMinutes # Nil
            /\ (~r.CookTimeMinutes.Valid \/ r.CookTimeMinutes.Int32 > maxTimeMinutes[1])
    THEN FALSE
    ELSE IF dietLower # sEmpty
            /\ ~(\E i \in 1..Len(r.Tags) : ToLower(r.Tags[i]) = dietLower)
    THEN FALSE
    ELSE TRUE

\* The filter loop: filtered = append(filtered, r) for the rows it keeps.
FilterRows(all, dietLower, diffLower, maxTimeMinutes, cuisineLower) ==
    SelectSeq(all, LAMBDA r : KeepRow(r, dietLower, diffLower, maxTimeMinutes, cuisineLower))

\* The pagination of the filtered rows: "panic" is Go's slice bounds out of
\* range on filtered[offset:end].
Paginate(filtered, limit, offset) ==
    IF offset >= Len(filtered) THEN [status |-> "ok", rows |-> << >>]
    ELSE LET e == offset + limit
             end == IF e > Len(filtered) THEN Len(filtered) ELSE e
         IN  IF offset < 0 \/ end < offset
             THEN [status |-> "panic", rows |-> << >>]
             ELSE [status |-> "ok", rows |-> SubSeq(filtered, offset + 1, end)]

\* The criteria are lowercased as given, spaces included.
SearchAndFilterRecipesUntrimmed(table, query, diet, difficulty, maxTimeMinutes, cuisine, limit, offset, dbFails) ==
    IF dbFails
    THEN [status |-> "error", all |-> << >>, filtered |-> << >>, rows |-> << >>]
    ELSE LET all == SearchRecipes(table, query, FetchLimit(limit, offset))
             dietLower == ToLower(diet)
             diffLower == ToLower(difficulty)
             cuisineLower == ToLower(cuisine)
             filtered == FilterRows(all, dietLower, diffLower, maxTimeMinutes, cuisineLower)
             page == Paginate(filtered, limit, offset)
         IN  [status |-> page.status, all |-> all, filtered |-> filtered, rows |-> page.rows]

\* dbFails: the SearchRecipes query returns an error.
SearchAndFilterRecipes(table, query, diet, difficulty, maxTimeMinutes, cuisine, limit, offset, dbFails) ==
    IF dbFails
    THEN [status |-> "error", all |-> << >>, filtered |-> << >>, rows |-> << >>]
    ELSE LET all == SearchRecipes(table, query, FetchLimit(limit, offset))
             dietLower == ToLower(TrimSpace(diet))
             diffLower == ToLower(TrimSpace(difficulty))
             cuisineLower == ToLower(TrimSpace(cuisine))
             filtered == FilterRows(all, dietLower, diffLower, maxTimeMinutes, cuisineLower)
             page == Paginate(filtered, limit, offset)
         IN  [status |-> page.status, all |-> all, filtered |-> filtered, rows |-> page.rows]

-----------------------------------------------------------------------------
(* Service.MatchWithFilters.                                               *)

\* detectedSet[strings.ToLower(strings.TrimSpace(d))] = struct{}{}
DetectedSet(ingredients) ==
    { ToLower(TrimSpace(ingredients[i])) : i \in 1..Len(ingredients) }

\* Mutant of TagScore: the tag is compared without lowercasing it.
RECURSIVE TagScoreCaseSensitive(_, _)
TagScoreCaseSensitive(tags, detectedSet) ==
    IF tags = << >> THEN 0
    ELSE (IF Head(tags) \in detectedSet THEN 1 ELSE 0)
         + TagScoreCaseSensitive(Tail(tags), detectedSet)

\* The tag loop stops at the first detected tag.
TagScoreFirstMatch(tags, detectedSet) ==
    IF \E i \in 1..Len(tags) : ToLower(tags[i]) \in detectedSet THEN 1 ELSE 0

\* A detected tag counts once, however often the recipe lists it.
TagScoreDistinct(tags, detectedSet) ==
    Cardinality({ ToLower(tags[i]) : i \in 1..Len(tags) } \cap detectedSet)

\* for _, t := range r.Tags: score++ when the lowercased tag is detected
RECURSIVE TagScore(_, _)
TagScore(tags, detectedSet) ==
    IF tags = << >> THEN 0
    ELSE (IF ToLower(Head(tags)) \in detectedSet THEN 1 ELSE 0)
         + TagScore(Tail(tags), detectedSet)

\* for d := range detectedSet: score++ when the lowercased title contains d
TitleScore(title, detectedSet) ==
    LET titleLower == ToLower(title)
    IN  Cardinality({ d \in detectedSet : Contains(titleLower, d) })

OverlapScore(r, detectedSet) ==
    TagScore(r.Tags, detectedSet) + TitleScore(r.Title, detectedSet)

RecipeWithScore(r, score) == [SearchRecipesRow |-> r, Score |-> score]

\* Mutant of ScoreCandidates: a candidate with score 0 is not appended.
RECURSIVE ScoreCandidatesDropZero(_, _)
ScoreCandidatesDropZero(candidates, detectedSet) ==
    IF candidates = << >> THEN << >>
    ELSE (IF OverlapScore(Head(candidates), detectedSet) > 0
          THEN <<RecipeWithScore(Head(candidates), OverlapScore(Head(candidates), detectedSet))>>
          ELSE << >>)
         \o ScoreCandidatesDropZero(Tail(candidates), detectedSet)

\* The scoring loop: one RecipeWithScore per candidate.
RECURSIVE ScoreCandidates(_, _)
ScoreCandidates(candidates, detectedSet) ==
    IF candidates = << >> THEN << >>
    ELSE <<RecipeWithScore(Head(candidates), OverlapScore(Head(candidates), detectedSet))>>
         \o ScoreCandidates(Tail(candidates), detectedSet)

\* Mutant of SortByScore: the results are left in the order of the candidates.
SortByScoreUnsorted(results) == {results}

\* sort.Slice(results, func(i, j) { return results[i].Score > results[j].Score }):
\* the sort is not stable, so every arrangement in descending score is an outcome.
SortByScore(results) ==
    LET n == Len(results)
        perms == { f \in [1..n -> 1..n] : \A i, j \in 1..n : i # j => f[i] # f[j] }
    IN  { [i \in 1..n |-> results[f[i]]] : f \in
            { g \in perms : \A i, j \in 1..n :
                i < j => ~(results[g[j]].Score > results[g[i]].Score) } }

-----------------------------------------------------------------------------
(* Service.MatchRecipes.                                                   *)

\* ListRecipes: ORDER BY id LIMIT $1 OFFSET $2
ListRecipesPage(table, limit, offset) ==
    SubSeq(table, offset + 1, IF offset + limit < Len(table) THEN offset + limit ELSE Len(table))

RecipeSummary(id, title, score) == [ID |-> id, Title |-> title, Score |-> score]

\* The scoring loop of MatchRecipes over the full rows of the page: the same two
\* counts, kept as a RecipeSummary.
RECURSIVE ScoreSummaries(_, _)
ScoreSummaries(list, detectedSet) ==
    IF list = << >> THEN << >>
    ELSE LET full == Head(list)
             score == (TagScore(full.Tags, detectedSet)
                       + TitleScore(full.Title, detectedSet))
         IN  <<RecipeSummary(full.ID, full.Title, score)>>
             \o ScoreSummaries(Tail(list), detectedSet)

-----------------------------------------------------------------------------
(* Service.GetSuggestions.                                                 *)

SuggestionFactor == 5

SuggestionFloor == 100

\* A Go map[string]int: a function on its keys; a missing key reads as 0.
EmptyMap == << >>

MapGet(m, k) == IF k \in DOMAIN m THEN m[k] ELSE 0

\* Mutant of MapIncrement: the map records that the tag occurs, not how often.
MapIncrementOnce(m, k) ==
    IF k \in DOMAIN m THEN m ELSE m @@ (k :> 1)

MapIncrement(m, k) ==
    IF k \in DOMAIN m THEN [m EXCEPT ![k] = @ + 1] ELSE m @@ (k :> 1)

\* for _, t := range full.Tags: favoriteTagCounts[strings.ToLower(t)]++
RECURSIVE CountTags(_, _)
CountTags(tags, counts) ==
    IF tags = << >> THEN counts
    ELSE CountTags(Tail(tags), MapIncrement(counts, ToLower(Head(tags))))

\* The profiling loop ends at the first favourite that cannot be read.
RECURSIVE FavoriteTagCountsUntilError(_, _, _, _, _)
FavoriteTagCountsUntilError(table, favs, failed, pos, counts) ==
    IF pos > Len(favs) \/ pos \in failed THEN counts
    ELSE IF ~HasRecipe(table, favs[pos].RecipeID)
    THEN FavoriteTagCountsUntilError(table, favs, failed, pos + 1, counts)
    ELSE FavoriteTagCountsUntilError(table, favs, failed, pos + 1,
             CountTags(GetRecipeByID(table, favs[pos].RecipeID).Tags, counts))

\* The profiling loop over the favourites from position pos on. failed holds the
\* positions whose GetRecipeByID returns an error: the loop continues past them.
RECURSIVE FavoriteTagCounts(_, _, _, _, _)
FavoriteTagCounts(table, favs, failed, pos, counts) ==
    IF pos > Len(favs) THEN counts
    ELSE IF pos \in failed \/ ~HasRecipe(table, favs[pos].RecipeID)
    THEN FavoriteTagCounts(table, favs, failed, pos + 1, counts)
    ELSE FavoriteTagCounts(table, favs, failed, pos + 1,
             CountTags(GetRecipeByID(table, favs[pos].RecipeID).Tags, counts))

\* Mutant of SuggestionScore: a weighted tag adds 1, not its weight.
RECURSIVE SuggestionScoreUnweighted(_, _)
SuggestionScoreUnweighted(tags, counts) ==
    IF tags = << >> THEN 0
    ELSE (IF MapGet(counts, ToLower(Head(tags))) > 0 THEN 1 ELSE 0)
         + SuggestionScoreUnweighted(Tail(tags), counts)

\* score += favoriteTagCounts[strings.ToLower(t)] over the candidate's tags
RECURSIVE SuggestionScore(_, _)
SuggestionScore(tags, counts) ==
    IF tags = << >> THEN 0
    ELSE MapGet(counts, ToLower(Head(tags))) + SuggestionScore(Tail(tags), counts)

\* Mutant of ScoreSuggestions: every candidate is appended, score 0 included.
RECURSIVE ScoreSuggestionsKeepZero(_, _)
ScoreSuggestionsKeepZero(candidates, counts) ==
    IF candidates = << >> THEN << >>
    ELSE <<RecipeWithScore(Head(candidates), SuggestionScore(Head(candidates).Tags, counts))>>
         \o ScoreSuggestionsKeepZero(Tail(candidates), counts)

\* The scoring loop: a candidate is appended only if score > 0.
ScoreSuggestions(candidates, counts) ==
    LET kept == SelectSeq(candidates, LAMBDA r : SuggestionScore(r.Tags, counts) > 0)
    IN  [k \in 1..Len(kept) |->
            RecipeWithScore(kept[k], SuggestionScore(kept[k].Tags, counts))]

\* Mutant of Truncate: the result is not cut to the limit.
TruncateNever(scored, limit) == [status |-> "ok", out |-> scored]

\* if len(scored) > limit { scored = scored[:limit] }: "panic" is Go's slice
\* bounds out of range on a negative limit.
Truncate(scored, limit) ==
    IF Len(scored) > limit
    THEN IF limit < 0
         THEN [status |-> "panic", out |-> << >>]
         ELSE [status |-> "ok", out |-> SubSeq(scored, 1, limit)]
    ELSE [status |-> "ok", out |-> scored]

\* The candidate search asks for five times the limit, with no floor.
SuggestionCandidatesNoFloor(table, limit, dbFails) ==
    SearchAndFilterRecipes(table, sEmpty, sEmpty, sEmpty, Nil, sEmpty,
                           limit * SuggestionFactor, 0, dbFails)

\* The candidate search of GetSuggestions: no query, no filter, offset 0.
SuggestionCandidates(table, limit, dbFails) ==
    SearchAndFilterRecipes(table, sEmpty, sEmpty, sEmpty, Nil, sEmpty,
                           Max(limit * SuggestionFactor, SuggestionFloor), 0, dbFails)

-----------------------------------------------------------------------------
(* The arguments the model calls the service with.                         *)

\* The limits and offsets the handlers pass: 1 <= limit <= 200, offset >= 0.
Limits == 1..MaxLimit

Offsets == 0..MaxOffset

Queries == {sEmpty, sPasta}

Diets == {sEmpty, sBlank, sVegetarianPadded}

Difficulties == {sEmpty, sBlank, sEasyUpper}

Cuisines == {sEmpty, sItalian}

MaxTimes == {Nil, <<20>>}

IngredientLists ==
    { << >>, <<sTomato>>, <<sTomato, sBasil>>, <<sBasil, sTomato>>, <<sPastaPadded>>,
      <<sPastaPadded, sPasta>>, <<sMeat, sPastaCap>>, <<sEmpty, sBlank>> }

-----------------------------------------------------------------------------
(* The state machine.                                                      *)

NoCall ==
    [op |-> "none", user |-> 0, recipe |-> 0, ingredients |-> << >>,
     query |-> sEmpty, diet |-> sEmpty, difficulty |-> sEmpty, maxTime |-> Nil,
     cuisine |-> sEmpty, limit |-> 0, offset |-> 0, failed |-> {},
     status |-> "ok", all |-> << >>, filtered |-> << >>, candidates |-> << >>,
     favs |-> << >>, weights |-> EmptyMap, scored |-> << >>, out |-> << >>,
     text |-> sEmpty, words |-> << >>, name |-> sEmpty, prior |-> Nil,
     normalized |-> sEmpty, found |-> FALSE, raw |-> Nil]

\* A call that ends in a database error returns no result: (nil, err).
CallFailed(op, user, limit, offset) ==
    [NoCall EXCEPT !.op = op, !.user = user, !.limit = limit, !.offset = offset,
                   !.status = "error"]

Init ==
    /\ catalog \in Catalogs
    /\ favorites = << >>
    /\ last = NoCall

\* Service.SearchAndFilterRecipes called with a limit, an offset and a maximum
\* time of the given sets; raw is the query string they were read from, Nil when
\* the call is not followed from a query string. dbFails: the SearchRecipes
\* query returns an error.
ListRecipesWith(raw, limits, offsets, maxTimes) ==
    /\ last.op = "none"
    /\ \E query \in Queries, diet \in Diets, difficulty \in Difficulties,
       maxTime \in maxTimes, cuisine \in Cuisines,
       limit \in limits, offset \in offsets, dbFails \in BOOLEAN :
        LET res == SearchAndFilterRecipes(catalog, query, diet, difficulty, maxTime,
                                          cuisine, limit, offset, dbFails)
        IN  /\ last' = IF dbFails THEN CallFailed("SearchAndFilterRecipes", 0, limit, offset) ELSE
                        [NoCall EXCEPT !.op = "SearchAndFilterRecipes", !.raw = raw,
                            !.query = query, !.diet = diet, !.difficulty = difficulty,
                            !.maxTime = maxTime, !.cuisine = cuisine,
                            !.limit = limit, !.offset = offset,
                            !.status = res.status, !.all = res.all,
                            !.filtered = res.filtered, !.candidates = res.rows]
            /\ UNCHANGED <<catalog, favorites>>

\* Handler.ListRecipes -> Service.SearchAndFilterRecipes
ListRecipes == ListRecipesWith(Nil, Limits, Offsets, MaxTimes)

\* Service.MatchWithFilters called with a limit, an offset and a maximum time of
\* the given sets; raw as in ListRecipesWith.
MatchWith(raw, limits, offsets, maxTimes) ==
    /\ last.op = "none"
    /\ \E ingredients \in IngredientLists, diet \in Diets, difficulty \in Difficulties,
       maxTime \in maxTimes, cuisine \in Cuisines,
       limit \in limits, offset \in offsets, dbFails \in BOOLEAN :
        LET res == SearchAndFilterRecipes(catalog, sEmpty, diet, difficulty, maxTime,
                                          cuisine, limit, offset, dbFails)
            results == ScoreCandidates(res.rows, DetectedSet(ingredients))
        IN  \E sorted \in (IF res.status = "ok" THEN SortByScore(results) ELSE {<< >>}) :
                /\ last' = IF dbFails THEN CallFailed("MatchWithFilters", 0, limit, offset) ELSE
                            [NoCall EXCEPT !.op = "MatchWithFilters", !.raw = raw,
                                !.ingredients = ingredients,
                                !.diet = diet, !.difficulty = difficulty,
                                !.maxTime = maxTime, !.cuisine = cuisine,
                                !.limit = limit, !.offset = offset,
                                !.status = res.status, !.all = res.all,
                                !.filtered = res.filtered, !.candidates = res.rows,
                                !.out = sorted]
                /\ UNCHANGED <<catalog, favorites>>

\* Handler.Match -> Service.MatchWithFilters
Match == MatchWith(Nil, Limits, Offsets, MaxTimes)

\* Service.MatchRecipes: a page of the recipes table, each row read in full by
\* GetRecipeByID and scored. dbFails: one of the queries returns an error.
MatchRecipes ==
    /\ last.op = "none"
    /\ \E detected \in IngredientLists, limit \in Limits, offset \in Offsets,
          dbFails \in BOOLEAN :
        LET list == ListRecipesPage(catalog, limit, offset)
            results == ScoreSummaries(list, DetectedSet(detected))
        IN  \E sorted \in (IF dbFails THEN {<< >>} ELSE SortByScore(results)) :
                /\ last' = IF dbFails THEN CallFailed("MatchRecipes", 0, limit, offset) ELSE
                            [NoCall EXCEPT !.op = "MatchRecipes",
                                !.ingredients = detected,
                                !.limit = limit, !.offset = offset,
                                !.all = list, !.candidates = list, !.out = sorted]
                /\ UNCHANGED <<catalog, favorites>>

\* Handler.AddFavorite -> Service.AddFavorite: INSERT INTO favorites. The foreign
\* key on recipe_id refuses a recipe that is not in the recipes table.
AddFavorite ==
    /\ last.op = "none"
    /\ \E user \in Users, recipe \in 1..Len(RecipePool) :
        /\ Len(favorites) < MaxFavorites
        /\ IF HasRecipe(catalog, recipe)
           THEN /\ favorites' = Append(favorites, [UserID |-> user, RecipeID |-> recipe])
                /\ last' = [NoCall EXCEPT !.op = "AddFavorite", !.user = user,
                                !.recipe = recipe]
           ELSE /\ favorites' = favorites
                /\ last' = [NoCall EXCEPT !.op = "AddFavorite", !.user = user,
                                !.recipe = recipe, !.status = "error"]
        /\ UNCHANGED catalog

\* Handler.RemoveFavorite -> Service.RemoveFavorite:
\* DELETE FROM favorites WHERE user_id = $1 AND recipe_id = $2
RemoveFavorite ==
    /\ last.op = "none"
    /\ \E user \in Users, recipe \in 1..Len(RecipePool) :
        /\ favorites' = SelectSeq(favorites,
                            LAMBDA f : ~(f.UserID = user /\ f.RecipeID = recipe))
        /\ last' = [NoCall EXCEPT !.op = "RemoveFavorite", !.user = user,
                        !.recipe = recipe]
        /\ UNCHANGED catalog

\* Service.GetSuggestions. listFails, failed and searchFails are the database
\* errors of the call: of ListFavoritesByUser, of the GetRecipeByID of the
\* favourites at the positions in failed, and of SearchRecipes.
GetSuggestionsWith(raw, limits) ==
    /\ last.op = "none"
    /\ \E user \in Users, limit \in limits, listFails \in BOOLEAN :
        LET favs == ListFavoritesByUser(catalog, favorites, user)
        IN  IF listFails
            THEN /\ last' = CallFailed("GetSuggestions", user, limit, 0)
                 /\ UNCHANGED <<catalog, favorites>>
            ELSE \E failed \in SUBSET (1..Len(favs)), searchFails \in BOOLEAN :
                    LET favoriteTagCounts ==
                            FavoriteTagCounts(catalog, favs, failed, 1, EmptyMap)
                        res == SuggestionCandidates(catalog, limit, searchFails)
                        scored == ScoreSuggestions(res.rows, favoriteTagCounts)
                    IN  IF res.status # "ok"
                        THEN /\ last' = CallFailed("GetSuggestions", user, limit, 0)
                             /\ UNCHANGED <<catalog, favorites>>
                        ELSE \E sorted \in SortByScore(scored) :
                                LET cut == Truncate(sorted, limit)
                                IN  /\ last' = [NoCall EXCEPT !.op = "GetSuggestions",
                                                    !.raw = raw, !.user = user, !.limit = limit,
                                                    !.favs = favs, !.failed = failed,
                                                    !.weights = favoriteTagCounts,
                                                    !.all = res.all,
                                                    !.filtered = res.filtered,
                                                    !.candidates = res.rows,
                                                    !.scored = scored,
                                                    !.status = cut.status,
                                                    !.out = cut.out]
                                    /\ UNCHANGED <<catalog, favorites>>

\* Service.GetSuggestions with the limits of a short catalog, a negative one
\* among them.
GetSuggestions == GetSuggestionsWith(Nil, -1..MaxLimit)

\* Handler.ListFavorites -> Service.ListFavorites: the ListFavoritesByUser query.
\* dbFails: the query returns an error.
ListFavorites ==
    /\ last.op = "none"
    /\ \E user \in Users, dbFails \in BOOLEAN :
        last' = IF dbFails THEN CallFailed("ListFavorites", user, 0, 0) ELSE
                    [NoCall EXCEPT !.op = "ListFavorites", !.user = user,
                        !.favs = ListFavoritesByUser(catalog, favorites, user)]
    /\ UNCHANGED <<catalog, favorites>>

\* The handler writes its response and the request ends: the results of a call
\* are request-scoped.
Respond ==
    /\ last.op # "none"
    /\ last' = NoCall
    /\ UNCHANGED <<catalog, favorites>>

NextSearch == ListRecipes \/ Match \/ MatchRecipes \/ Respond

NextSuggest == AddFavorite \/ RemoveFavorite \/ ListFavorites \/ GetSuggestions \/ Respond

Next == NextSearch \/ NextSuggest

\* Searching and matching over a catalog.
SpecSearch == Init /\ [][NextSearch]_vars

\* Favourites and suggestions over a catalog.
SpecSuggest == Init /\ [][NextSuggest]_vars

Spec == Init /\ [][Next]_vars

-----------------------------------------------------------------------------
(* Properties of the overlap scorer and of the catalog filter (SpecSearch). *)

\* The ingredient set of a request: its ingredient list, trimmed and lowercased.
IngredientSet(ingredients) ==
    { ToLower(TrimSpace(ingredients[i])) : i \in DOMAIN ingredients }

\* sub occurs in s as a run of consecutive characters.
OccursIn(sub, s) ==
    \E i \in 1..(Len(s) + 1) : \E j \in (i - 1)..Len(s) : SubSeq(s, i, j) = sub

\* The overlap of a recipe with an ingredient list, as two counts.
ExpectedOverlap(tags, title, ingredients) ==
    Cardinality({ i \in DOMAIN tags : ToLower(tags[i]) \in IngredientSet(ingredients) })
    + Cardinality({ d \in IngredientSet(ingredients) : OccursIn(d, ToLower(title)) })

Returned(op) == last.op = op /\ last.status = "ok"

IsSet(criterion) == TrimSpace(criterion) # sEmpty

EqualFold(value, criterion) == ToLower(value) = ToLower(TrimSpace(criterion))

\* The row passes every set criterion of the call in last.
Passes(r) ==
    /\ IsSet(last.difficulty) =>
          r.Difficulty.Valid /\ EqualFold(r.Difficulty.String, last.difficulty)
    /\ IsSet(last.cuisine) =>
          r.Cuisine.Valid /\ EqualFold(r.Cuisine.String, last.cuisine)
    /\ last.maxTime # Nil =>
          r.CookTimeMinutes.Valid /\ r.CookTimeMinutes.Int32 <= last.maxTime[1]
    /\ IsSet(last.diet) =>
          \E i \in DOMAIN r.Tags : EqualFold(r.Tags[i], last.diet)

Filtering ==
    Returned("SearchAndFilterRecipes") \/ Returned("MatchWithFilters")

\* C2: the filtered sequence of SearchAndFilterRecipes is the subsequence of the
\* fetched rows, in their order, that pass every set criterion (difficulty,
\* cuisine, maximum time with a missing time disqualifying, diet as a tag);
\* unset criteria constrain nothing.
C2_FilteredIsPassingSubsequence ==
    Filtering => last.filtered = SelectSeq(last.all, Passes)

\* C2 witness: a search with difficulty, maximum time and diet set kept one row
\* and dropped a row that has no cook time.
C2_Witness ==
    /\ Returned("SearchAndFilterRecipes")
    /\ IsSet(last.difficulty) /\ IsSet(last.diet) /\ last.maxTime # Nil
    /\ last.filtered # << >>
    /\ \E i \in DOMAIN last.all :
          /\ ~last.all[i].CookTimeMinutes.Valid
          /\ \A k \in DOMAIN last.filtered : last.filtered[k] # last.all[i]

\* The rows of a scored result as recipes.
OutRecipes == { last.out[k].SearchRecipesRow : k \in DOMAIN last.out }

\* C8: the overlap scorer discards nothing: MatchWithFilters returns exactly one
\* scored row for every candidate SearchAndFilterRecipes handed to it, and a
\* candidate with no tag or title overlap is returned with Score = 0.
C8_MatchKeepsEveryCandidate ==
    Returned("MatchWithFilters") =>
        /\ Len(last.out) = Len(last.candidates)
        /\ \A i \in DOMAIN last.candidates :
              Cardinality({ k \in DOMAIN last.out :
                              last.out[k].SearchRecipesRow = last.candidates[i] }) = 1
        /\ \A k \in DOMAIN last.out :
              LET r == last.out[k].SearchRecipesRow
              IN  ( /\ \A i \in DOMAIN r.Tags :
                          ToLower(r.Tags[i]) \notin IngredientSet(last.ingredients)
                    /\ \A d \in IngredientSet(last.ingredients) :
                          ~OccursIn(d, ToLower(r.Title)) )
                  => last.out[k].Score = 0

\* C8 witness: a match returned a candidate with Score = 0 beside one with a
\* positive score.
C8_Witness ==
    /\ Returned("MatchWithFilters")
    /\ Len(last.candidates) = 2
    /\ \E k \in DOMAIN last.out : last.out[k].Score = 0
    /\ \E k \in DOMAIN last.out : last.out[k].Score > 0

\* C9: Match scores every recipe of the database that satisfies the filters and
\* returns the top N by score: no recipe that passes the filters and is absent
\* from a result of N rows has a strictly higher overlap score than a recipe of
\* the result.
C9_MatchReturnsTopN ==
    ( /\ Returned("MatchWithFilters")
      /\ last.offset = 0
      /\ Len(last.out) = last.limit )
    => \A i \in DOMAIN catalog :
          (Passes(catalog[i]) /\ catalog[i] \notin OutRecipes)
          => \A k \in DOMAIN last.out :
                ExpectedOverlap(catalog[i].Tags, catalog[i].Title, last.ingredients)
                    <= last.out[k].Score

-----------------------------------------------------------------------------
(* Properties of the suggestions (SpecSuggest).                            *)

\* The weight of a tag in a weight map: 0 when the map has no entry for it.
WeightOf(weights, tag) ==
    IF ToLower(tag) \in DOMAIN weights THEN weights[ToLower(tag)] ELSE 0

\* The sum of the weights of tags[1..n].
RECURSIVE WeightSum(_, _, _)
WeightSum(weights, tags, n) ==
    IF n = 0 THEN 0 ELSE WeightSum(weights, tags, n - 1) + WeightOf(weights, tags[n])

ExpectedSuggestionScore(r) == WeightSum(last.weights, r.Tags, Len(r.Tags))

\* C3: every candidate GetSuggestions returns has Score = the sum over its tags
\* of the preference weight of the tag, 0 for a tag with no weight entry.
C3_SuggestionScoreIsWeightSum ==
    Returned("GetSuggestions") =>
        \A k \in DOMAIN last.out :
            last.out[k].Score = ExpectedSuggestionScore(last.out[k].SearchRecipesRow)

\* C3 witness: a suggestion with a tag of weight 2 or more and a tag of no weight.
C3_Witness ==
    /\ Returned("GetSuggestions")
    /\ \E k \in DOMAIN last.out :
          LET r == last.out[k].SearchRecipesRow
          IN  /\ \E i \in DOMAIN r.Tags : WeightOf(last.weights, r.Tags[i]) >= 2
              /\ \E i \in DOMAIN r.Tags : WeightOf(last.weights, r.Tags[i]) = 0

\* The rows of the favorites table of the user of the call in last.
FavouriteRows == { i \in DOMAIN favorites : favorites[i].UserID = last.user }

FavouriteIds == { favorites[i].RecipeID : i \in FavouriteRows }

\* The number of occurrences of the tag in the tag list of a recipe.
Occurrences(tag, id) ==
    LET tags == GetRecipeByID(catalog, id).Tags
    IN  Cardinality({ j \in DOMAIN tags : ToLower(tags[j]) = tag })

\* The occurrences of the tag over the favourites favorites[1..n] of the user.
RECURSIVE TotalOccurrences(_, _)
TotalOccurrences(tag, n) ==
    IF n = 0 THEN 0
    ELSE TotalOccurrences(tag, n - 1)
         + (IF n \in FavouriteRows THEN Occurrences(tag, favorites[n].RecipeID) ELSE 0)

FavouriteTags ==
    UNION { { ToLower(t) : t \in Range(GetRecipeByID(catalog, id).Tags) } : id \in FavouriteIds }

\* The call in last read every favourite of the user: no database error.
ProfiledAll == Returned("GetSuggestions") /\ last.failed = {}

\* C4: the weight map GetSuggestions builds maps each tag to its number of
\* occurrences over the tag lists of all the favourites of the user, one per
\* occurrence; favourites tagged [italian, pasta] and [italian, vegetarian]
\* give italian 2, pasta 1, vegetarian 1.
C4_WeightsAreTagOccurrences ==
    ProfiledAll =>
        /\ DOMAIN last.weights = FavouriteTags
        /\ \A tag \in FavouriteTags :
              last.weights[tag] = TotalOccurrences(tag, Len(favorites))
        /\ ( \E i, j \in FavouriteRows :
                /\ FavouriteRows = {i, j} /\ i # j
                /\ GetRecipeByID(catalog, favorites[i].RecipeID).Tags = <<sItalian, sPasta>>
                /\ GetRecipeByID(catalog, favorites[j].RecipeID).Tags = <<sItalian, sVegetarian>> )
           => last.weights = (sItalian :> 2) @@ (sPasta :> 1) @@ (sVegetarian :> 1)

\* C4 witness: the profile of the favourites tagged [italian, pasta] and
\* [italian, vegetarian].
C4_Witness ==
    /\ ProfiledAll
    /\ { GetRecipeByID(catalog, id).Tags : id \in FavouriteIds }
           = { <<sItalian, sPasta>>, <<sItalian, sVegetarian>> }
    /\ Cardinality(FavouriteRows) = 2
    /\ last.weights = (sItalian :> 2) @@ (sPasta :> 1) @@ (sVegetarian :> 1)

\* C5: a candidate none of whose tags is weighted never appears in the output
\* of GetSuggestions, whatever the limit; every suggestion has Score > 0.
C5_NoZeroScoreSuggestion ==
    Returned("GetSuggestions") =>
        /\ \A k \in DOMAIN last.out : last.out[k].Score > 0
        /\ \A i \in DOMAIN catalog :
              (\A j \in DOMAIN catalog[i].Tags :
                    ToLower(catalog[i].Tags[j]) \notin DOMAIN last.weights)
              => catalog[i] \notin OutRecipes

\* C5 witness: with a limit that truncates nothing, a candidate with a weighted
\* tag was returned and a candidate with tags, none of them weighted, was not.
C5_Witness ==
    /\ Returned("GetSuggestions")
    /\ last.limit >= Len(catalog)
    /\ last.out # << >>
    /\ \E i \in DOMAIN catalog :
          /\ catalog[i].Tags # << >>
          /\ \A j \in DOMAIN catalog[i].Tags :
                ToLower(catalog[i].Tags[j]) \notin DOMAIN last.weights
          /\ catalog[i] \notin OutRecipes

C7_SortedThenTruncated ==
    Returned("GetSuggestions") =>
        /\ \A j, k \in DOMAIN last.out :
              j < k => last.out[j].Score >= last.out[k].Score
        /\ \A i \in DOMAIN last.candidates :
              ( /\ ExpectedSuggestionScore(last.candidates[i]) > 0
                /\ last.candidates[i] \notin OutRecipes )
              => \A k \in DOMAIN last.out :
                    ExpectedSuggestionScore(last.candidates[i]) <= last.out[k].Score

\* C7 witness: a candidate with a positive score was cut, and it has a lower
\* recipe id and a lower score than the suggestion returned.
C7_Witness ==
    /\ Returned("GetSuggestions")
    /\ \E i \in DOMAIN last.candidates : \E k \in DOMAIN last.out :
          /\ last.candidates[i] \notin OutRecipes
          /\ ExpectedSuggestionScore(last.candidates[i]) > 0
          /\ ExpectedSuggestionScore(last.candidates[i]) < last.out[k].Score
          /\ last.candidates[i].ID < last.out[k].SearchRecipesRow.ID

\* C10: a recipe the user has favourited never appears in the output of
\* GetSuggestions for that user.
C10_NoFavouriteSuggested ==
    Returned("GetSuggestions") =>
        \A k \in DOMAIN last.out : last.out[k].SearchRecipesRow.ID \notin FavouriteIds

-----------------------------------------------------------------------------
(* Package vision: the ingredient table, ParseIngredientsFromText,         *)
(* NormalizeIngredientName and IsLikelyFood.                               *)

Digits == {"0","1","2","3","4","5","6","7","8","9"}

\* The entries of the commonIngredients map literal, <<key, value>>, in the
\* order of the source.
IngredientTable ==
    <<
       <<<<"t","o","m","a","t","o">>, <<"t","o","m","a","t","o">>>>,
       <<<<"t","o","m","a","t","o","e","s">>, <<"t","o","m","a","t","o">>>>,
       <<<<"o","n","i","o","n">>, <<"o","n","i","o","n">>>>,
       <<<<"o","n","i","o","n","s">>, <<"o","n","i","o","n">>>>,
       <<<<"g","a","r","l","i","c">>, <<"g","a","r","l","i","c">>>>,
       <<<<"g","a","r","l","i","c","s">>, <<"g","a","r","l","i","c">>>>,
       <<<<"p","e","p","p","e","r">>, <<"p","e","p","p","e","r">>>>,
       <<<<"p","e","p","p","e","r","s">>, <<"p","e","p","p","e","r">>>>,
       <<<<"b","e","l","l"," ","p","e","p","p","e","r">>, <<"b","e","l","l"," ","p","e","p","p","e","r">>>>,
       <<<<"c","a","r","r","o","t">>, <<"c","a","r","r","o","t">>>>,
       <<<<"c","a","r","r","o","t","s">>, <<"c","a","r","r","o","t">>>>,
       <<<<"p","o","t","a","t","o">>, <<"p","o","t","a","t","o">>>>,
       <<<<"p","o","t","a","t","o","e","s">>, <<"p","o","t","a","t","o">>>>,
       <<<<"l","e","t","t","u","c","e">>, <<"l","e","t","t","u","c","e">>>>,
       <<<<"s","p","i","n","a","c","h">>, <<"s","p","i","n","a","c","h">>>>,
       <<<<"b","r","o","c","c","o","l","i">>, <<"b","r","o","c","c","o","l","i">>>>,
       <<<<"c","u","c","u","m","b","e","r">>, <<"c","u","c","u","m","b","e","r">>>>,
       <<<<"c","u","c","u","m","b","e","r","s">>, <<"c","u","c","u","m","b","e","r">>>>,
       <<<<"c","e","l","e","r","y">>, <<"c","e","l","e","r","y">>>>,
       <<<<"m","u","s","h","r","o","o","m">>, <<"m","u","s","h","r","o","o","m">>>>,
       <<<<"m","u","s","h","r","o","o","m","s">>, <<"m","u","s","h","r","o","o","m">>>>,
       <<<<"z","u","c","c","h","i","n","i">>, <<"z","u","c","c","h","i","n","i">>>>,
       <<<<"e","g","g","p","l","a","n","t">>, <<"e","g","g","p","l","a","n","t">>>>,
       <<<<"c","o","r","n">>, <<"c","o","r","n">>>>,
       <<<<"p","e","a","s">>, <<"p","e","a","s">>>>,
       <<<<"b","e","a","n","s">>, <<"b","e","a","n","s">>>>,
       <<<<"b","e","a","n">>, <<"b","e","a","n">>>>,
       <<<<"c","a","b","b","a","g","e">>, <<"c","a","b","b","a","g","e">>>>,
       <<<<"c","a","u","l","i","f","l","o","w","e","r">>, <<"c","a","u","l","i","f","l","o","w","e","r">>>>,
       <<<<"a","s","p","a","r","a","g","u","s">>, <<"a","s","p","a","r","a","g","u","s">>>>,
       <<<<"l","e","e","k">>, <<"l","e","e","k">>>>,
       <<<<"l","e","e","k","s">>, <<"l","e","e","k">>>>,
       <<<<"r","a","d","i","s","h">>, <<"r","a","d","i","s","h">>>>,
       <<<<"r","a","d","i","s","h","e","s">>, <<"r","a","d","i","s","h">>>>,
       <<<<"b","e","e","t">>, <<"b","e","e","t">>>>,
       <<<<"b","e","e","t","s">>, <<"b","e","e","t">>>>,
       <<<<"s","q","u","a","s","h">>, <<"s","q","u","a","s","h">>>>,
       <<<<"p","u","m","p","k","i","n">>, <<"p","u","m","p","k","i","n">>>>,
       <<<<"k","a","l","e">>, <<"k","a","l","e">>>>,
       <<<<"a","r","u","g","u","l","a">>, <<"a","r","u","g","u","l","a">>>>,
       <<<<"b","a","s","i","l">>, <<"b","a","s","i","l">>>>,
       <<<<"p","a","r","s","l","e","y">>, <<"p","a","r","s","l","e","y">>>>,
       <<<<"c","i","l","a","n","t","r","o">>, <<"c","i","l","a","n","t","r","o">>>>,
       <<<<"c","o","r","i","a","n","d","e","r">>, <<"c","i","l","a","n","t","r","o">>>>,
       <<<<"m","i","n","t">>, <<"m","i","n","t">>>>,
       <<<<"t","h","y","m","e">>, <<"t","h","y","m","e">>>>,
       <<<<"r","o","s","e","m","a","r","y">>, <<"r","o","s","e","m","a","r","y">>>>,
       <<<<"o","r","e","g","a","n","o">>, <<"o","r","e","g","a","n","o">>>>,
       <<<<"d","i","l","l">>, <<"d","i","l","l">>>>,
       <<<<"c","h","i","v","e">>, <<"c","h","i","v","e">>>>,
       <<<<"c","h","i","v","e","s">>, <<"c","h","i","v","e">>>>,
       <<<<"g","i","n","g","e","r">>, <<"g","i","n","g","e","r">>>>,
       <<<<"c","h","i","c","k","e","n">>, <<"c","h","i","c","k","e","n">>>>,
       <<<<"b","e","e","f">>, <<"b","e","e","f">>>>,
       <<<<"p","o","r","k">>, <<"p","o","r","k">>>>,
       <<<<"l","a","m","b">>, <<"l","a","m","b">>>>,
       <<<<"t","u","r","k","e","y">>, <<"t","u","r","k","e","y">>>>,
       <<<<"d","u","c","k">>, <<"d","u","c","k">>>>,
       <<<<"f","i","s","h">>, <<"f","i","s","h">>>>,
       <<<<"s","a","l","m","o","n">>, <<"s","a","l","m","o","n">>>>,
       <<<<"t","u","n","a">>, <<"t","u","n","a">>>>,
       <<<<"s","h","r","i","m","p">>, <<"s","h","r","i","m","p">>>>,
       <<<<"p","r","a","w","n","s">>, <<"s","h","r","i","m","p">>>>,
       <<<<"c","r","a","b">>, <<"c","r","a","b">>>>,
       <<<<"l","o","b","s","t","e","r">>, <<"l","o","b","s","t","e","r">>>>,
       <<<<"e","g","g">>, <<"e","g","g">>>>,
       <<<<"e","g","g","s">>, <<"e","g","g">>>>,
       <<<<"b","a","c","o","n">>, <<"b","a","c","o","n">>>>,
       <<<<"s","a","u","s","a","g","e">>, <<"s","a","u","s","a","g","e">>>>,
       <<<<"s","a","u","s","a","g","e","s">>, <<"s","a","u","s","a","g","e">>>>,
       <<<<"h","a","m">>, <<"h","a","m">>>>,
       <<<<"t","o","f","u">>, <<"t","o","f","u">>>>,
       <<<<"c","h","e","e","s","e">>, <<"c","h","e","e","s","e">>>>,
       <<<<"m","i","l","k">>, <<"m","i","l","k">>>>,
       <<<<"c","r","e","a","m">>, <<"c","r","e","a","m">>>>,
       <<<<"b","u","t","t","e","r">>, <<"b","u","t","t","e","r">>>>,
       <<<<"y","o","g","u","r","t">>, <<"y","o","g","u","r","t">>>>,
       <<<<"y","o","g","h","u","r","t">>, <<"y","o","g","u","r","t">>>>,
       <<<<"m","o","z","z","a","r","e","l","l","a">>, <<"m","o","z","z","a","r","e","l","l","a">>>>,
       <<<<"c","h","e","d","d","a","r">>, <<"c","h","e","d","d","a","r">>>>,
       <<<<"p","a","r","m","e","s","a","n">>, <<"p","a","r","m","e","s","a","n">>>>,
       <<<<"f","e","t","a">>, <<"f","e","t","a">>>>,
       <<<<"r","i","c","o","t","t","a">>, <<"r","i","c","o","t","t","a">>>>,
       <<<<"r","i","c","e">>, <<"r","i","c","e">>>>,
       <<<<"p","a","s","t","a">>, <<"p","a","s","t","a">>>>,
       <<<<"n","o","o","d","l","e">>, <<"n","o","o","d","l","e">>>>,
       <<<<"n","o","o","d","l","e","s">>, <<"n","o","o","d","l","e">>>>,
       <<<<"b","r","e","a","d">>, <<"b","r","e","a","d">>>>,
       <<<<"f","l","o","u","r">>, <<"f","l","o","u","r">>>>,
       <<<<"o","a","t">>, <<"o","a","t">>>>,
       <<<<"o","a","t","s">>, <<"o","a","t">>>>,
       <<<<"q","u","i","n","o","a">>, <<"q","u","i","n","o","a">>>>,
       <<<<"c","o","u","s","c","o","u","s">>, <<"c","o","u","s","c","o","u","s">>>>,
       <<<<"b","a","r","l","e","y">>, <<"b","a","r","l","e","y">>>>,
       <<<<"a","p","p","l","e">>, <<"a","p","p","l","e">>>>,
       <<<<"a","p","p","l","e","s">>, <<"a","p","p","l","e">>>>,
       <<<<"b","a","n","a","n","a">>, <<"b","a","n","a","n","a">>>>,
       <<<<"b","a","n","a","n","a","s">>, <<"b","a","n","a","n","a">>>>,
       <<<<"o","r","a","n","g","e">>, <<"o","r","a","n","g","e">>>>,
       <<<<"o","r","a","n","g","e","s">>, <<"o","r","a","n","g","e">>>>,
       <<<<"l","e","m","o","n">>, <<"l","e","m","o","n">>>>,
       <<<<"l","e","m","o","n","s">>, <<"l","e","m","o","n">>>>,
       <<<<"l","i","m","e">>, <<"l","i","m","e">>>>,
       <<<<"l","i","m","e","s">>, <<"l","i","m","e">>>>,
       <<<<"s","t","r","a","w","b","e","r","r","y">>, <<"s","t","r","a","w","b","e","r","r","y">>>>,
       <<<<"s","t","r","a","w","b","e","r","r","i","e","s">>, <<"s","t","r","a","w","b","e","r","r","y">>>>,
       <<<<"b","l","u","e","b","e","r","r","y">>, <<"b","l","u","e","b","e","r","r","y">>>>,
       <<<<"b","l","u","e","b","e","r","r","i","e","s">>, <<"b","l","u","e","b","e","r","r","y">>>>,
       <<<<"r","a","s","p","b","e","r","r","y">>, <<"r","a","s","p","b","e","r","r","y">>>>,
       <<<<"r","a","s","p","b","e","r","r","i","e","s">>, <<"r","a","s","p","b","e","r","r","y">>>>,
       <<<<"g","r","a","p","e">>, <<"g","r","a","p","e">>>>,
       <<<<"g","r","a","p","e","s">>, <<"g","r","a","p","e">>>>,
       <<<<"m","a","n","g","o">>, <<"m","a","n","g","o">>>>,
       <<<<"m","a","n","g","o","e","s">>, <<"m","a","n","g","o">>>>,
       <<<<"p","i","n","e","a","p","p","l","e">>, <<"p","i","n","e","a","p","p","l","e">>>>,
       <<<<"w","a","t","e","r","m","e","l","o","n">>, <<"w","a","t","e","r","m","e","l","o","n">>>>,
       <<<<"p","e","a","c","h">>, <<"p","e","a","c","h">>>>,
       <<<<"p","e","a","c","h","e","s">>, <<"p","e","a","c","h">>>>,
       <<<<"p","e","a","r">>, <<"p","e","a","r">>>>,
       <<<<"p","e","a","r","s">>, <<"p","e","a","r">>>>,
       <<<<"c","h","e","r","r","y">>, <<"c","h","e","r","r","y">>>>,
       <<<<"c","h","e","r","r","i","e","s">>, <<"c","h","e","r","r","y">>>>,
       <<<<"a","v","o","c","a","d","o">>, <<"a","v","o","c","a","d","o">>>>,
       <<<<"a","v","o","c","a","d","o","s">>, <<"a","v","o","c","a","d","o">>>>,
       <<<<"c","o","c","o","n","u","t">>, <<"c","o","c","o","n","u","t">>>>,
       <<<<"l","e","n","t","i","l">>, <<"l","e","n","t","i","l">>>>,
       <<<<"l","e","n","t","i","l","s">>, <<"l","e","n","t","i","l">>>>,
       <<<<"c","h","i","c","k","p","e","a">>, <<"c","h","i","c","k","p","e","a">>>>,
       <<<<"c","h","i","c","k","p","e","a","s">>, <<"c","h","i","c","k","p","e","a">>>>,
       <<<<"a","l","m","o","n","d">>, <<"a","l","m","o","n","d">>>>,
       <<<<"a","l","m","o","n","d","s">>, <<"a","l","m","o","n","d">>>>,
       <<<<"w","a","l","n","u","t">>, <<"w","a","l","n","u","t">>>>,
       <<<<"w","a","l","n","u","t","s">>, <<"w","a","l","n","u","t">>>>,
       <<<<"p","e","a","n","u","t">>, <<"p","e","a","n","u","t">>>>,
       <<<<"p","e","a","n","u","t","s">>, <<"p","e","a","n","u","t">>>>,
       <<<<"c","a","s","h","e","w">>, <<"c","a","s","h","e","w">>>>,
       <<<<"c","a","s","h","e","w","s">>, <<"c","a","s","h","e","w">>>>,
       <<<<"p","i","s","t","a","c","h","i","o">>, <<"p","i","s","t","a","c","h","i","o">>>>,
       <<<<"p","i","s","t","a","c","h","i","o","s">>, <<"p","i","s","t","a","c","h","i","o">>>>,
       <<<<"s","a","l","t">>, <<"s","a","l","t">>>>,
       <<<<"s","u","g","a","r">>, <<"s","u","g","a","r">>>>,
       <<<<"o","i","l">>, <<"o","i","l">>>>,
       <<<<"o","l","i","v","e"," ","o","i","l">>, <<"o","l","i","v","e"," ","o","i","l">>>>,
       <<<<"v","i","n","e","g","a","r">>, <<"v","i","n","e","g","a","r">>>>,
       <<<<"s","o","y"," ","s","a","u","c","e">>, <<"s","o","y"," ","s","a","u","c","e">>>>,
       <<<<"h","o","n","e","y">>, <<"h","o","n","e","y">>>>,
       <<<<"m","u","s","t","a","r","d">>, <<"m","u","s","t","a","r","d">>>>,
       <<<<"k","e","t","c","h","u","p">>, <<"k","e","t","c","h","u","p">>>>,
       <<<<"m","a","y","o","n","n","a","i","s","e">>, <<"m","a","y","o","n","n","a","i","s","e">>>>,
       <<<<"h","o","t"," ","s","a","u","c","e">>, <<"h","o","t"," ","s","a","u","c","e">>>>,
       <<<<"c","h","i","l","i">>, <<"c","h","i","l","i">>>>,
       <<<<"c","h","i","l","l","i">>, <<"c","h","i","l","i">>>>,
       <<<<"c","u","m","i","n">>, <<"c","u","m","i","n">>>>,
       <<<<"p","a","p","r","i","k","a">>, <<"p","a","p","r","i","k","a">>>>,
       <<<<"t","u","r","m","e","r","i","c">>, <<"t","u","r","m","e","r","i","c">>>>,
       <<<<"c","i","n","n","a","m","o","n">>, <<"c","i","n","n","a","m","o","n">>>>,
       <<<<"n","u","t","m","e","g">>, <<"n","u","t","m","e","g">>>>,
       <<<<"v","a","n","i","l","l","a">>, <<"v","a","n","i","l","l","a">>>>,
       <<<<"w","i","n","e">>, <<"w","i","n","e">>>>,
       <<<<"s","t","o","c","k">>, <<"s","t","o","c","k">>>>,
       <<<<"b","r","o","t","h">>, <<"b","r","o","t","h">>>>,
       <<<<"s","a","u","c","e">>, <<"s","a","u","c","e">>>>,
       <<<<"s","o","u","p">>, <<"s","o","u","p">>>>
    >>

IngredientKeys == { IngredientTable[i][1] : i \in DOMAIN IngredientTable }

\* A table in which cilantro and coriander name each other.
commonIngredientsCrossed ==
    [k \in IngredientKeys |->
        IF k = <<"c","i","l","a","n","t","r","o">> THEN <<"c","o","r","i","a","n","d","e","r">>
        ELSE IngredientTable[CHOOSE i \in DOMAIN IngredientTable : IngredientTable[i][1] = k][2]]

\* var commonIngredients = map[string]string{...}
commonIngredients ==
    [k \in IngredientKeys |->
        IngredientTable[CHOOSE i \in DOMAIN IngredientTable : IngredientTable[i][1] = k][2]]

\* The noise words without their trailing space.
noiseBare ==
    <<
       <<"a">>,
       <<"a","n">>,
       <<"t","h","e">>,
       <<"w","i","t","h">>,
       <<"a","n","d">>,
       <<"o","r">>,
       <<"o","f">>,
       <<"i","n">>,
       <<"o","n">>,
       <<"f","r","e","s","h">>,
       <<"d","r","i","e","d">>,
       <<"c","h","o","p","p","e","d">>,
       <<"s","l","i","c","e","d">>,
       <<"d","i","c","e","d">>,
       <<"m","i","n","c","e","d">>,
       <<"c","o","o","k","e","d">>,
       <<"r","a","w">>,
       <<"g","r","i","l","l","e","d">>,
       <<"f","r","i","e","d">>,
       <<"b","a","k","e","d">>,
       <<"r","o","a","s","t","e","d">>,
       <<"l","a","r","g","e">>,
       <<"s","m","a","l","l">>,
       <<"m","e","d","i","u","m">>,
       <<"w","h","o","l","e">>,
       <<"h","a","l","f">>,
       <<"p","i","e","c","e">>,
       <<"c","u","p">>,
       <<"c","u","p","s">>,
       <<"t","a","b","l","e","s","p","o","o","n">>,
       <<"t","e","a","s","p","o","o","n">>,
       <<"p","o","u","n","d">>,
       <<"o","u","n","c","e">>,
       <<"s","e","r","v","i","n","g">>,
       <<"p","l","a","t","e">>,
       <<"b","o","w","l">>,
       <<"d","i","s","h">>,
       <<"m","e","a","l">>
    >>

\* The noise list of removeNoise: every entry ends in a space.
noise ==
    <<
       <<"a"," ">>,
       <<"a","n"," ">>,
       <<"t","h","e"," ">>,
       <<"w","i","t","h"," ">>,
       <<"a","n","d"," ">>,
       <<"o","r"," ">>,
       <<"o","f"," ">>,
       <<"i","n"," ">>,
       <<"o","n"," ">>,
       <<"f","r","e","s","h"," ">>,
       <<"d","r","i","e","d"," ">>,
       <<"c","h","o","p","p","e","d"," ">>,
       <<"s","l","i","c","e","d"," ">>,
       <<"d","i","c","e","d"," ">>,
       <<"m","i","n","c","e","d"," ">>,
       <<"c","o","o","k","e","d"," ">>,
       <<"r","a","w"," ">>,
       <<"g","r","i","l","l","e","d"," ">>,
       <<"f","r","i","e","d"," ">>,
       <<"b","a","k","e","d"," ">>,
       <<"r","o","a","s","t","e","d"," ">>,
       <<"l","a","r","g","e"," ">>,
       <<"s","m","a","l","l"," ">>,
       <<"m","e","d","i","u","m"," ">>,
       <<"w","h","o","l","e"," ">>,
       <<"h","a","l","f"," ">>,
       <<"p","i","e","c","e"," ">>,
       <<"c","u","p"," ">>,
       <<"c","u","p","s"," ">>,
       <<"t","a","b","l","e","s","p","o","o","n"," ">>,
       <<"t","e","a","s","p","o","o","n"," ">>,
       <<"p","o","u","n","d"," ">>,
       <<"o","u","n","c","e"," ">>,
       <<"s","e","r","v","i","n","g"," ">>,
       <<"p","l","a","t","e"," ">>,
       <<"b","o","w","l"," ">>,
       <<"d","i","s","h"," ">>,
       <<"m","e","a","l"," ">>
    >>

\* strings.ReplaceAll: non-overlapping occurrences, left to right. The text
\* from position from on, with every occurrence of old replaced by new.
RECURSIVE ReplaceFrom(_, _, _, _)
ReplaceFrom(s, old, new, from) ==
    LET at == { p \in from..(Len(s) - Len(old) + 1) : SubSeq(s, p, p + Len(old) - 1) = old }
    IN  IF at = {} THEN SubSeq(s, from, Len(s))
        ELSE LET p == CHOOSE x \in at : \A y \in at : x <= y
             IN  SubSeq(s, from, p - 1) \o new \o ReplaceFrom(s, old, new, p + Len(old))

ReplaceAll(s, old, new) == ReplaceFrom(s, old, new, 1)

\* for _, word := range noise { result = strings.ReplaceAll(result, word, " ") }
RECURSIVE RemoveEach(_, _)
RemoveEach(result, i) ==
    IF i > Len(noise) \/ result = << >> THEN result
    ELSE RemoveEach(ReplaceAll(result, noise[i], <<" ">>), i + 1)

removeNoise(text) == RemoveEach(text, 1)

\* regexp `[^a-z0-9\s]` replaced by a space
Cleaned(text) ==
    [i \in 1..Len(text) |->
        IF text[i] \in Range(LowerLetters) \cup Digits \cup WhiteSpace
        THEN text[i] ELSE " "]

\* strings.Fields: the maximal runs of non-space characters.
RECURSIVE Fields(_, _, _)
Fields(s, i, word) ==
    IF i > Len(s) THEN (IF word = << >> THEN << >> ELSE <<word>>)
    ELSE IF s[i] \in WhiteSpace
         THEN (IF word = << >> THEN << >> ELSE <<word>>) \o Fields(s, i + 1, << >>)
         ELSE Fields(s, i + 1, Append(word, s[i]))

splitWords(text) == Fields(Cleaned(text), 1, << >>)

\* The state of the loop of ParseIngredientsFromText.
NothingDetected == [detected |-> {}, ingredients |-> << >>]

\* Every hit is appended, seen before or not.
DetectAgain(st, phrase) ==
    IF phrase \in DOMAIN commonIngredients
    THEN [detected |-> st.detected \cup {commonIngredients[phrase]},
          ingredients |-> Append(st.ingredients, commonIngredients[phrase])]
    ELSE st

\* The phrase itself is appended instead of its table value.
DetectPhrase(st, phrase) ==
    IF phrase \in DOMAIN commonIngredients /\ phrase \notin st.detected
    THEN [detected |-> st.detected \cup {phrase},
          ingredients |-> Append(st.ingredients, phrase)]
    ELSE st

\* if normalized, found := commonIngredients[phrase]; found {
\*     if !detected[normalized] { detected[normalized] = true; append } }
Detect(st, phrase) ==
    IF phrase \in DOMAIN commonIngredients /\ commonIngredients[phrase] \notin st.detected
    THEN [detected |-> st.detected \cup {commonIngredients[phrase]},
          ingredients |-> Append(st.ingredients, commonIngredients[phrase])]
    ELSE st

\* Only the single words are looked up, no phrase of two or three.
RECURSIVE DetectFromSingleWords(_, _, _)
DetectFromSingleWords(words, i, st) ==
    IF i > Len(words) THEN st.ingredients
    ELSE DetectFromSingleWords(words, i + 1, Detect(st, words[i]))

\* for i := 0; i < len(words); i++ { ... }, with i counted from 1
RECURSIVE DetectFrom(_, _, _)
DetectFrom(words, i, st) ==
    IF i > Len(words) THEN st.ingredients
    ELSE LET one == Detect(st, words[i])
             two == IF i < Len(words)
                    THEN Detect(one, words[i] \o <<" ">> \o words[i + 1])
                    ELSE one
             three == IF i < Len(words) - 1
                      THEN Detect(two, words[i] \o <<" ">> \o words[i + 1]
                                                \o <<" ">> \o words[i + 2])
                      ELSE two
         IN  DetectFrom(words, i + 1, three)

ParseIngredientsFromText(text) ==
    IF text = sEmpty THEN << >>
    ELSE DetectFrom(splitWords(removeNoise(ToLower(text))), 1, NothingDetected)

\* The name is looked up as given, spaces included.
NormalizeIngredientNameUntrimmed(name) ==
    LET lower == ToLower(name)
    IN  IF lower \in DOMAIN commonIngredients THEN commonIngredients[lower] ELSE lower

NormalizeIngredientName(name) ==
    LET lower == ToLower(TrimSpace(name))
    IN  IF lower \in DOMAIN commonIngredients THEN commonIngredients[lower] ELSE lower

IsLikelyFood(word) == ToLower(TrimSpace(word)) \in DOMAIN commonIngredients

-----------------------------------------------------------------------------
(* Calls of the parser and of the normaliser.                              *)

MaxWords == 3         \* most words of a generated caption

wA == <<"a">>

wTomatoes == <<"T","o","m","a","t","o","e","s">>

wTomatoComma == <<"t","o","m","a","t","o",",">>

wOlive == <<"o","l","i","v","e">>

wOil == <<"o","i","l">>

wPasta == <<"p","a","s","t","a">>

wKiwi == <<"k","i","w","i">>

CaptionWords == {wA, wTomatoes, wTomatoComma, wOlive, wOil, wPasta, wKiwi}

tBlanks == <<" "," ">>

tMixedSpace == <<" ","\t","\n">>

tBowl == <<"a"," ","b","o","w","l"," ","o","f"," ","f","r","e","s","h"," ","c","h","o","p","p","e","d"," ","t","o","m","a","t","o","e","s"," ","a","n","d"," ","o","n","i","o","n","s">>

\* strings.Join(ws, " ")
RECURSIVE JoinWords(_)
JoinWords(ws) ==
    IF ws = << >> THEN << >>
    ELSE IF Len(ws) = 1 THEN ws[1]
    ELSE ws[1] \o <<" ">> \o JoinWords(Tail(ws))

\* The captions handed to the parser: up to MaxWords caption words, the empty
\* caption among them, two captions of white space, and the documented example.
Captions ==
    { JoinWords(ws) : ws \in UNION { [1..n -> CaptionWords] : n \in 0..MaxWords } }
        \cup {tBlanks, tMixedSpace, tBowl}

\* The names handed to NormalizeIngredientName and IsLikelyFood: every key of
\* the table, and names that are padded, capitalised, empty, blank or unknown.
Names ==
    IngredientKeys \cup
        { <<" ","T","o","m","a","t","o","e","s"," ">>, <<"C","O","R","I","A","N","D","E","R">>, <<"O","l","i","v","e"," ","O","i","l">>, <<"\t","p","r","a","w","n","s","\n">>,
          sEmpty, tBlanks, wKiwi, <<" ","K","i","w","i"," ">>, <<"o","l","i","v","e"," "," ","o","i","l">> }

InitVision ==
    /\ catalog = << >>
    /\ favorites = << >>
    /\ last = NoCall

\* A caller (huggingface.go) parses a caption, or a key of the table given on
\* its own.
ParseCaption ==
    /\ last.op = "none"
    /\ \E text \in Captions \cup IngredientKeys :
        last' = [NoCall EXCEPT !.op = "ParseIngredientsFromText", !.text = text,
                    !.words = IF text = sEmpty THEN << >>
                              ELSE splitWords(removeNoise(ToLower(text))),
                    !.out = ParseIngredientsFromText(text)]
    /\ UNCHANGED <<catalog, favorites>>

NormalizeName ==
    /\ last.op = "none"
    /\ \E name \in Names :
        last' = [NoCall EXCEPT !.op = "NormalizeIngredientName", !.name = name,
                    !.normalized = NormalizeIngredientName(name)]
    /\ UNCHANGED <<catalog, favorites>>

\* The caller normalises a name it got from NormalizeIngredientName.
NormalizeAgain ==
    /\ last.op = "NormalizeIngredientName"
    /\ last.prior = Nil
    /\ last' = [NoCall EXCEPT !.op = "NormalizeIngredientName",
                    !.name = last.normalized, !.prior = <<last.name>>,
                    !.normalized = NormalizeIngredientName(last.normalized)]
    /\ UNCHANGED <<catalog, favorites>>

CheckFood ==
    /\ last.op = "none"
    /\ \E word \in Names :
        last' = [NoCall EXCEPT !.op = "IsLikelyFood", !.name = word,
                    !.found = IsLikelyFood(word)]
    /\ UNCHANGED <<catalog, favorites>>

NextVision == ParseCaption \/ NormalizeName \/ NormalizeAgain \/ CheckFood \/ Respond

\* Parsing captions and normalising names.
SpecVision == InitVision /\ [][NextVision]_vars

-----------------------------------------------------------------------------
(* Properties of the caption parser and of the normaliser (SpecVision).    *)

Parsed == last.op = "ParseIngredientsFromText"

\* The phrase of k tokens that starts at token i.
PhraseAt(t, i, k) == JoinWords(SubSeq(t, i, i + k - 1))

\* The lookups of the parser in the order it makes them: lookup p is the phrase
\* of ((p - 1) % 3) + 1 tokens at position ((p - 1) \div 3) + 1. Its value is
\* <<c>> when the phrase exists and is a key with canonical value c, else << >>.
LookupAt(t, p) ==
    LET i == ((p - 1) \div 3) + 1
        k == ((p - 1) % 3) + 1
    IN  IF i + k - 1 <= Len(t) /\ PhraseAt(t, i, k) \in IngredientKeys
        THEN <<commonIngredients[PhraseAt(t, i, k)]>>
        ELSE << >>

\* The lookups that hit a canonical value no earlier lookup hit.
FirstHits(t) ==
    { p \in 1..(3 * Len(t)) :
        /\ LookupAt(t, p) # << >>
        /\ \A q \in 1..(p - 1) : LookupAt(t, q) # LookupAt(t, p) }

RECURSIVE Ascending(_)
Ascending(S) ==
    IF S = {} THEN << >>
    ELSE LET m == CHOOSE x \in S : \A y \in S : x <= y
         IN  <<m>> \o Ascending(S \ {m})

\* C11: the parser returns the canonical values of the lookups that hit, taken
\* position by position (one word, then two, then three), each value where it
\* is first seen: no duplicates, first-seen order.
C11_FirstSeenOrder ==
    Parsed =>
        LET hits == Ascending(FirstHits(last.words))
        IN  /\ last.out = [j \in 1..Len(hits) |-> LookupAt(last.words, hits[j])[1]]
            /\ \A j, k \in DOMAIN last.out : last.out[j] = last.out[k] => j = k

\* A caption with a two-word hit, and a value that is hit twice.
C11_Witness ==
    /\ Parsed
    /\ Len(last.out) >= 2
    /\ \E p \in FirstHits(last.words) : (p - 1) % 3 = 1
    /\ \E p \in 1..(3 * Len(last.words)) :
        LookupAt(last.words, p) # << >> /\ p \notin FirstHits(last.words)

\* The canonical values: the right-hand sides of the table.
CanonicalValues == { IngredientTable[i][2] : i \in DOMAIN IngredientTable }

\* C12: every element the parser returns is a canonical value of the table;
\* a word the table does not know never appears in the result.
C12_OnlyCanonicalValues ==
    Parsed => \A j \in DOMAIN last.out : last.out[j] \in CanonicalValues

\* A caption with a word the table does not know and a key that is not its own
\* canonical value.
C12_Witness ==
    /\ Parsed
    /\ last.out # << >>
    /\ \E i \in DOMAIN last.words : last.words[i] \notin IngredientKeys
    /\ \E i \in DOMAIN last.words :
        last.words[i] \in IngredientKeys /\ last.words[i] \notin CanonicalValues

IsBlank(text) == \A i \in DOMAIN text : text[i] \in WhiteSpace

\* C13: the parser returns the empty sequence for the empty caption and for a
\* caption of white space only; for "a bowl of fresh chopped tomatoes and
\* onions" the result contains tomato and onion.
C13_BlankCaptionAndExample ==
    Parsed =>
        /\ IsBlank(last.text) => last.out = << >>
        /\ last.text = tBowl =>
            /\ <<"t","o","m","a","t","o">> \in Range(last.out)
            /\ <<"o","n","i","o","n">> \in Range(last.out)

C13_Witness ==
    /\ Parsed
    /\ last.text = tBowl
    /\ Len(last.out) = 2

C13_WitnessBlank ==
    /\ Parsed
    /\ last.text # sEmpty
    /\ IsBlank(last.text)

Normalized == last.op = "NormalizeIngredientName"

\* C14: NormalizeIngredientName is idempotent on every key of the table:
\* normalising the canonical value of a key gives that canonical value again.
C14_IdempotentOnKeys ==
    (Normalized /\ last.prior # Nil /\ last.prior[1] \in IngredientKeys) =>
        last.normalized = last.name

\* A key that is not its own canonical value, normalised twice.
C14_Witness ==
    /\ Normalized
    /\ last.prior # Nil
    /\ last.prior[1] \in IngredientKeys
    /\ last.prior[1] # last.name

\* The table entry of a key, read from the entries themselves.
EntryOf(t) == IngredientTable[CHOOSE i \in DOMAIN IngredientTable : IngredientTable[i][1] = t]

\* C15: NormalizeIngredientName is total: it returns the canonical value when
\* the lowercased, trimmed name is a key, and the lowercased, trimmed name
\* itself otherwise (the empty string included); IsLikelyFood is true exactly
\* when the lowercased, trimmed token is a key.
C15_NormalizeTotal ==
    LET t == ToLower(TrimSpace(last.name))
    IN  /\ Normalized =>
            last.normalized = IF t \in IngredientKeys THEN EntryOf(t)[2] ELSE t
        /\ last.op = "IsLikelyFood" => (last.found <=> t \in IngredientKeys)

\* A padded, capitalised key that is not its own canonical value.
C15_Witness ==
    /\ Normalized
    /\ ToLower(TrimSpace(last.name)) \in IngredientKeys
    /\ last.name # ToLower(TrimSpace(last.name))
    /\ TrimSpace(last.name) # last.name
    /\ last.normalized # ToLower(TrimSpace(last.name))

C15_WitnessUnknown ==
    /\ last.op = "IsLikelyFood"
    /\ ~last.found
    /\ TrimSpace(last.name) # last.name

-----------------------------------------------------------------------------
(* Composition and identity of the catalog filter (SpecSearch).            *)

CriterionFields == {"diet", "difficulty", "maxTime", "cuisine"}

\* The filter loop run on rows with the criteria of the call in last that are
\* named in fields, the other criteria unset.
FilterBy(rows, fields) ==
    FilterRows(rows,
               IF "diet" \in fields THEN ToLower(TrimSpace(last.diet)) ELSE sEmpty,
               IF "difficulty" \in fields THEN ToLower(TrimSpace(last.difficulty)) ELSE sEmpty,
               IF "maxTime" \in fields THEN last.maxTime ELSE Nil,
               IF "cuisine" \in fields THEN ToLower(TrimSpace(last.cuisine)) ELSE sEmpty)

\* C16: filtering composes conjunctively: for every split of the criteria of a
\* call into two criteria that set disjoint fields, filtering by the first and
\* then by the second gives the rows the call filtered with all of them.
C16_FilterComposes ==
    Filtering =>
        \A fields \in SUBSET CriterionFields :
            FilterBy(FilterBy(last.all, fields), CriterionFields \ fields) = last.filtered

\* A call whose criteria split into two that each drop a row the other keeps.
C16_Witness ==
    /\ Filtering
    /\ \E fields \in SUBSET CriterionFields :
        /\ FilterBy(last.all, fields) # << >>
        /\ FilterBy(last.all, CriterionFields \ fields) # << >>
        /\ FilterBy(last.all, fields) # FilterBy(last.all, CriterionFields \ fields)
        /\ last.filtered # FilterBy(last.all, fields)
        /\ last.filtered # FilterBy(last.all, CriterionFields \ fields)

NoCriterion ==
    /\ ~IsSet(last.diet)
    /\ ~IsSet(last.difficulty)
    /\ ~IsSet(last.cuisine)
    /\ last.maxTime = Nil

-----------------------------------------------------------------------------
(* Recipes whose tags, difficulty or cuisine carry white space: the columns *)
(* are TEXT and TEXT[] and nothing trims them on the way in.               *)

sGarlicBread == <<"G","a","r","l","i","c"," ","B","r","e","a","d">>

sVegetarianLead == <<" ","v","e","g","e","t","a","r","i","a","n">>

sPastaTrail == <<"p","a","s","t","a"," ">>

sEasyLead == <<" ","e","a","s","y">>

sItalianTrail == <<"i","t","a","l","i","a","n"," ">>

PlainTwin == Recipe(7, sGarlicBread, <<sVegetarian, sPasta>>, Str(sEasy), Str(sItalian), Int32(20))

TagTwin == Recipe(8, sGarlicBread, <<sVegetarianLead, sPastaTrail>>, Str(sEasy), Str(sItalian), Int32(20))

DifficultyTwin == Recipe(9, sGarlicBread, <<sVegetarian, sPasta>>, Str(sEasyLead), Str(sItalian), Int32(20))

CuisineTwin == Recipe(10, sGarlicBread, <<sVegetarian, sPasta>>, Str(sEasy), Str(sItalianTrail), Int32(20))

\* A recipe next to the same recipe with one kind of value padded.
PaddedCatalogs == { <<PlainTwin, twin>> : twin \in {TagTwin, DifficultyTwin, CuisineTwin} }

InitPadded ==
    /\ catalog \in PaddedCatalogs
    /\ favorites = << >>
    /\ last = NoCall

\* Searching and matching over a catalog with padded values.
SpecPadded == InitPadded /\ [][NextSearch]_vars

-----------------------------------------------------------------------------
(* Properties of the filter and of the scorer on padded values (SpecPadded). *)

TrimmedRow(r) ==
    [r EXCEPT !.Tags = [i \in DOMAIN r.Tags |-> TrimSpace(r.Tags[i])],
              !.Difficulty.String = TrimSpace(r.Difficulty.String),
              !.Cuisine.String = TrimSpace(r.Cuisine.String)]

\* Two rows that are the same recipe once their values are trimmed.
SameTrimmed(a, b) == [TrimmedRow(a) EXCEPT !.ID = 0] = [TrimmedRow(b) EXCEPT !.ID = 0]

Kept(r) == \E k \in DOMAIN last.filtered : last.filtered[k] = r

\* C20 as stated: the filter and the scorer lowercase and trim both sides when
\* they compare, so a recipe whose tag, difficulty or cuisine carries leading or
\* trailing white space is kept and scored like the same recipe with the value
\* trimmed.
C20_PaddedLikeTrimmed ==
    Filtering =>
        /\ \A i, j \in DOMAIN last.all :
            SameTrimmed(last.all[i], last.all[j]) => (Kept(last.all[i]) <=> Kept(last.all[j]))
        /\ Returned("MatchWithFilters") =>
            \A k, l \in DOMAIN last.out :
                SameTrimmed(last.out[k].SearchRecipesRow, last.out[l].SearchRecipesRow)
                    => last.out[k].Score = last.out[l].Score

Padded(s) == TrimSpace(s) # s

Unpadded(s) == TrimSpace(s) = s

\* C20, amended: both sides are lowercased but only the request side is
\* trimmed. A padded difficulty or cuisine never equals a set criterion, so the
\* row is dropped; a set diet is matched by an unpadded tag only; and a padded
\* tag adds nothing to the score.
C20_PaddedNeverMatches ==
    Filtering =>
        /\ \A k \in DOMAIN last.filtered :
            LET r == last.filtered[k]
            IN  /\ IsSet(last.difficulty) => ~Padded(r.Difficulty.String)
                /\ IsSet(last.cuisine) => ~Padded(r.Cuisine.String)
                /\ IsSet(last.diet) =>
                    \E i \in DOMAIN r.Tags :
                        Unpadded(r.Tags[i]) /\ EqualFold(r.Tags[i], last.diet)
        /\ Returned("MatchWithFilters") =>
            \A k \in DOMAIN last.out :
                LET r == last.out[k].SearchRecipesRow
                IN  last.out[k].Score =
                        ExpectedOverlap(SelectSeq(r.Tags, Unpadded), r.Title, last.ingredients)

\* A match that kept a recipe and dropped its padded twin, and scored a tag of
\* the recipe.
C20_Witness ==
    /\ Returned("MatchWithFilters")
    /\ \E i, j \in DOMAIN last.all :
        /\ SameTrimmed(last.all[i], last.all[j])
        /\ Kept(last.all[i]) /\ ~Kept(last.all[j])
    /\ \E k \in DOMAIN last.out : last.out[k].Score > 0

-----------------------------------------------------------------------------
(* The favourites store (SpecSuggest).                                     *)

\* C19: AddFavorite prevents duplicates: whatever AddFavorite and
\* RemoveFavorite calls were made, each (user, recipe) pair occurs at most once
\* in the favorites table, and ListFavorites never lists a recipe twice.
C19_FavouritePairOnce ==
    /\ \A i, j \in DOMAIN favorites :
        (favorites[i].UserID = favorites[j].UserID
            /\ favorites[i].RecipeID = favorites[j].RecipeID) => i = j
    /\ Returned("ListFavorites") =>
        \A i, j \in DOMAIN last.favs :
            last.favs[i].RecipeID = last.favs[j].RecipeID => i = j

-----------------------------------------------------------------------------
(* A session: favourites are added and removed, recipes are matched and    *)
(* suggestions are asked for, in any order.                                *)

\* Two recipes share a tag, whatever the case of its letters.
SharesTag(a, b) ==
    \E i \in DOMAIN a.Tags, j \in DOMAIN b.Tags : ToLower(a.Tags[i]) = ToLower(b.Tags[j])

\* The recipes tables of a session: every recipe shares a tag with another
\* recipe of the table, so that a favourite makes other recipes suggestions.
SessionCatalogs ==
    { c \in Catalogs :
        \A i \in DOMAIN c : \E j \in DOMAIN c : j # i /\ SharesTag(c[i], c[j]) } \ { << >> }

InitSession ==
    /\ catalog \in SessionCatalogs
    /\ favorites = << >>
    /\ last = NoCall

NextSession == AddFavorite \/ RemoveFavorite \/ MatchRecipes \/ GetSuggestions \/ Respond

SpecSession == InitSession /\ [][NextSession]_vars

\* The weight of a tag computed from the favorites table as it is now.
ScratchWeight(tag) == TotalOccurrences(ToLower(tag), Len(favorites))

\* The score of tags[1..n] under those weights.
RECURSIVE ScratchSum(_, _)
ScratchSum(tags, n) ==
    IF n = 0 THEN 0 ELSE ScratchSum(tags, n - 1) + ScratchWeight(tags[n])

ScratchScore(r) == ScratchSum(r.Tags, Len(r.Tags))

\* The rows of the recipes table, as it is now, that score above zero.
ScratchPositive == { i \in DOMAIN catalog : ScratchScore(catalog[i]) > 0 }

\* C18: nothing is kept between calls. After any sequence of AddFavorite,
\* RemoveFavorite, match and earlier GetSuggestions calls, a GetSuggestions call
\* that read every favourite returns, up to the order of ties, what a
\* computation from scratch returns on the favorites and recipes tables as they
\* are at the call: the rows scored by the current tag counts, those above zero,
\* highest first, cut to limit.
C18_SuggestionsFromScratch ==
    ProfiledAll =>
        /\ \A k \in DOMAIN last.out :
            /\ last.out[k].SearchRecipesRow \in Range(catalog)
            /\ last.out[k].Score = ScratchScore(last.out[k].SearchRecipesRow)
            /\ last.out[k].Score > 0
        /\ \A j, k \in DOMAIN last.out :
            /\ last.out[j].SearchRecipesRow = last.out[k].SearchRecipesRow => j = k
            /\ j < k => last.out[j].Score >= last.out[k].Score
        /\ Len(last.out) = IF last.limit < Cardinality(ScratchPositive)
                           THEN last.limit ELSE Cardinality(ScratchPositive)
        /\ \A i \in ScratchPositive :
            catalog[i] \notin OutRecipes =>
                \A k \in DOMAIN last.out : ScratchScore(catalog[i]) <= last.out[k].Score

\* Suggestions for a user with favourites, while the other user has favourites
\* too.
C18_Witness ==
    /\ ProfiledAll
    /\ last.out # << >>
    /\ \E i \in DOMAIN favorites : favorites[i].UserID # last.user
    /\ Cardinality(ScratchPositive) > Len(last.out)

-----------------------------------------------------------------------------
(* Ingredient lists with nothing in them (SpecSearch).                     *)

NoIngredient ==
    \A i \in DOMAIN last.ingredients : TrimSpace(last.ingredients[i]) = sEmpty

\* C21: malformed or empty ingredient input degrades to a zero result: when the
\* ingredient list is empty, or holds only empty or blank strings, every
\* candidate MatchWithFilters and MatchRecipes score gets Score = 0.
C21_NoIngredientScoresZero ==
    ((Returned("MatchWithFilters") \/ Returned("MatchRecipes")) /\ NoIngredient) =>
        \A k \in DOMAIN last.out : last.out[k].Score = 0

-----------------------------------------------------------------------------
(* A recipe next to the same recipe with one more tag.                     *)

FewerTags == Recipe(11, sPastaBake, <<sPasta>>, Str(sEasy), Str(sItalian), Int32(20))

MoreTags(tag) ==
    Recipe(12, sPastaBake, <<sPasta, tag>>, Str(sEasy), Str(sItalian), Int32(20))

\* The added tag: one that repeats a tag in capitals, one that names another
\* ingredient, one that names none, one that is padded.
AddedTags == {sPastaCap, sTomato, sSoup, sPastaTrail}

TaggedCatalogs == { <<FewerTags, MoreTags(tag)>> : tag \in AddedTags }

InitTagged ==
    /\ catalog \in TaggedCatalogs
    /\ favorites = << >>
    /\ last = NoCall

\* Searching and matching over a recipe and the recipe with one more tag.
SpecTagged == InitTagged /\ [][NextSearch]_vars

\* b is a with one tag added, all else equal.
OneMoreTag(a, b) ==
    /\ [a EXCEPT !.ID = 0, !.Tags = << >>] = [b EXCEPT !.ID = 0, !.Tags = << >>]
    /\ Len(b.Tags) = Len(a.Tags) + 1
    /\ SubSeq(b.Tags, 1, Len(a.Tags)) = a.Tags

-----------------------------------------------------------------------------
(* Pages of a catalog longer than the fetch floor.                         *)

MaxRows == 300

MaxPage == 150

\* Row i of the long catalog: up to the fetch floor every second row is
\* vegetarian, beyond it every row is.
PageRow(i) ==
    Recipe(i, sPlainRice,
           IF i > FetchFloor \/ i % 2 = 0 THEN <<sVegetarian>> ELSE << >>,
           Str(sEasy), NullStr, Int32(i))

LongCatalog == [i \in 1..MaxRows |-> PageRow(i)]

\* The long catalog, and its part up to the fetch floor.
PageCatalogs == { LongCatalog, Take(LongCatalog, FetchFloor) }

\* A page size the handlers accept (1..200) and the service's limit 0.
PageLimits == {0, MaxPage}

PageOffsets == {0, MaxPage, 2 * MaxPage}

InitPages ==
    /\ catalog \in PageCatalogs
    /\ favorites = << >>
    /\ last = NoCall

\* Handler.ListRecipes -> Service.SearchAndFilterRecipes, page by page.
ListPages == ListRecipesWith(Nil, PageLimits, PageOffsets, MaxTimes)

NextPages == ListPages \/ Respond

SpecPages == InitPages /\ [][NextPages]_vars

\* The catalog under the query and the criteria of the call in last.
FilteredCatalog == SelectSeq(SearchRecipes(catalog, last.query, Len(catalog)), Passes)

\* The page the service returns at an offset for the other arguments of last.
PageAt(offset) ==
    SearchAndFilterRecipes(catalog, last.query, last.diet, last.difficulty,
                           last.maxTime, last.cuisine, last.limit, offset, FALSE).rows

\* The pages at offsets 0, limit, ..., offset, one after the other.
RECURSIVE PagesUpTo(_)
PagesUpTo(offset) ==
    IF offset < last.limit THEN PageAt(offset)
    ELSE PagesUpTo(offset - last.limit) \o PageAt(offset)

IsPrefix(s, t) == Len(s) <= Len(t) /\ s = SubSeq(t, 1, Len(s))

\* The window of the catalog the call fetched.
FetchedWindow ==
    Take(SearchRecipes(catalog, last.query, Len(catalog)),
         Min(Max(last.limit + last.offset, FetchFloor), FetchCap))

\* The page is filtered[offset .. min(offset + limit, n)), empty from n on.
PageIsSlice ==
    LET n == Len(last.filtered)
    IN  /\ last.all = FetchedWindow
        /\ last.filtered = SelectSeq(last.all, Passes)
        /\ last.candidates =
               IF last.offset >= n THEN << >>
               ELSE SubSeq(last.filtered, last.offset + 1, Min(last.offset + last.limit, n))

\* C23: offset and limit are applied after filtering: the service returns the
\* elements [offset, min(offset + limit, n)) of the filtered sequence, computed
\* over the first min(max(limit + offset, 200), 2000) rows in id order, so for a
\* fixed catalog and filter the pages at offsets 0, L, 2L, ... are disjoint and
\* concatenate to a prefix of the filtered catalog.
C23_PagesConcatenateToPrefix ==
    Returned("SearchAndFilterRecipes") =>
        /\ PageIsSlice
        /\ (last.limit > 0 /\ last.offset % last.limit = 0) =>
              IsPrefix(PagesUpTo(last.offset), FilteredCatalog)

\* The slice itself is as stated, on every call.
C23_PageIsSliceOfFiltered ==
    Returned("SearchAndFilterRecipes") => PageIsSlice

-----------------------------------------------------------------------------
(* A table key given to the parser on its own (SpecVision).                *)

\* C24: for every key k of the synonym table, ParseIngredientsFromText(k)
\* contains the canonical value of k: noise removal never corrupts a table key
\* that is given on its own.
C24_KeyYieldsCanonical ==
    (Parsed /\ last.text \in IngredientKeys) =>
        \E j \in DOMAIN last.out : last.out[j] = commonIngredients[last.text]

\* A key of two words, and a key whose canonical value is another word.
C24_Witness ==
    /\ Parsed
    /\ last.text \in IngredientKeys
    /\ \E c \in DOMAIN last.text : last.text[c] = " "
    /\ \E j \in DOMAIN last.out : last.out[j] = commonIngredients[last.text]

C24_WitnessSynonym ==
    /\ Parsed
    /\ last.text \in IngredientKeys
    /\ commonIngredients[last.text] # last.text
    /\ \E j \in DOMAIN last.out : last.out[j] = commonIngredients[last.text]

-----------------------------------------------------------------------------
(* Start-up: App.connectWithRetry and connectToDatabase.                   *)

\* A time.Duration is an int64 of nanoseconds: 64 bits, bit 1 the lowest,
\* bit 64 the sign.
DurationBits == 64

\* The bits of 0 <= n < 2^31.
FromInt(n) ==
    [k \in 1..DurationBits |-> IF k <= 31 THEN (n \div (2 ^ (k - 1))) % 2 ELSE 0]

\* v << n on an int64: the bits shifted out are lost, zeros come in.
Shl(v, n) == [k \in 1..DurationBits |-> IF k - n >= 1 THEN v[k - n] ELSE 0]

\* The carry into bit k of a + b.
RECURSIVE Carry(_, _, _)
Carry(a, b, k) ==
    IF k = 1 THEN 0
    ELSE IF a[k - 1] + b[k - 1] + Carry(a, b, k - 1) >= 2 THEN 1 ELSE 0

\* a + b on an int64.
Add(a, b) == [k \in 1..DurationBits |-> (a[k] + b[k] + Carry(a, b, k)) % 2]

IsNegative(v) == v[DurationBits] = 1

\* a < b as unsigned numbers: at the highest bit where they differ, b has the 1.
UnsignedLess(a, b) ==
    \E k \in 1..DurationBits :
        /\ a[k] = 0 /\ b[k] = 1
        /\ \A j \in (k + 1)..DurationBits : a[j] = b[j]

\* a < b as int64.
Less(a, b) ==
    IF IsNegative(a) # IsNegative(b) THEN IsNegative(a) ELSE UnsignedLess(a, b)

ZeroDuration == FromInt(0)

Nanosecond == FromInt(1)

\* time.Second: 1e9 nanoseconds.
Second == FromInt(1000000000)

\* 500 * time.Millisecond
DefaultBackoff == FromInt(500000000)

\* 5 * time.Second
MaxWait == Add(Shl(Second, 2), Second)

\* Duration(-1)
MinusOne == [k \in 1..DurationBits |-> 1]

DefaultAttempts == 8

\* Mutant of BackoffOf: a configured backoff of zero or less is used as it is.
BackoffUnchecked(DBRetryBackoff) == DBRetryBackoff

\* backoff := cfg.DBRetryBackoff; if backoff <= 0 { backoff = 500ms }
BackoffOf(DBRetryBackoff) ==
    IF ~Less(ZeroDuration, DBRetryBackoff) THEN DefaultBackoff ELSE DBRetryBackoff

\* Mutant of AttemptsOf: a configured maximum of zero or less is used as it is.
AttemptsUnchecked(DBRetryMax) == DBRetryMax

\* attempts := cfg.DBRetryMax; if attempts <= 0 { attempts = 8 }
AttemptsOf(DBRetryMax) == IF DBRetryMax <= 0 THEN DefaultAttempts ELSE DBRetryMax

\* wait := backoff << i; if wait > 5*time.Second { wait = 5 * time.Second }
WaitOf(backoff, i) ==
    LET wait == Shl(backoff, i)
    IN  IF Less(MaxWait, wait) THEN MaxWait ELSE wait

\* The largest DB_RETRY_MAX of the model.
MaxRetries == 66

RetryMaxes == {-1, 0, 1, 2, 10, MaxRetries}

\* DB_RETRY_BACKOFF: unset or unparsable (the default), 0, negative, 1ns, 1s.
RetryBackoffs == {DefaultBackoff, ZeroDuration, MinusOne, Nanosecond, Second}

\* The process at the top of the retry loop, before its first ping. pinged is
\* the outcome of every db.Ping so far: Nil, or the error of that ping.
Connecting(op, DBRetryMax, DBRetryBackoff) ==
    [op |-> op, pc |-> "loop", DBRetryMax |-> DBRetryMax,
     DBRetryBackoff |-> DBRetryBackoff,
     backoff |-> BackoffOf(DBRetryBackoff), attempts |-> AttemptsOf(DBRetryMax),
     i |-> 0, pingErr |-> Nil, pinged |-> << >>, waits |-> << >>, err |-> Nil]

InitConnect ==
    /\ catalog = << >>
    /\ favorites = << >>
    /\ \E op \in {"connectWithRetry", "connectToDatabase"},
          DBRetryMax \in RetryMaxes, DBRetryBackoff \in RetryBackoffs :
        last = Connecting(op, DBRetryMax, DBRetryBackoff)

\* pingErr = db.Ping(): nil, or the error of this ping; on nil the loop is left.
Ping ==
    /\ last.pc = "loop"
    /\ last.i < last.attempts
    /\ \E ok \in BOOLEAN :
        LET pingErr == IF ok THEN Nil ELSE <<Len(last.pinged) + 1>>
        IN  last' = [last EXCEPT !.pingErr = pingErr,
                        !.pinged = Append(@, pingErr),
                        !.pc = IF ok THEN "connected" ELSE "backoff"]
    /\ UNCHANGED <<catalog, favorites>>

\* The wait is computed and slept, and the loop goes on with i + 1.
Sleep ==
    /\ last.pc = "backoff"
    /\ last' = [last EXCEPT !.waits = Append(@, WaitOf(last.backoff, last.i)),
                    !.i = @ + 1, !.pc = "loop"]
    /\ UNCHANGED <<catalog, favorites>>

\* After the loop: connectWithRetry returns pingErr, and New and main end the
\* process on an error; connectToDatabase ends it with log.Fatalf. With no
\* error the router is set up and the server listens.
StartOrAbort ==
    /\ \/ last.pc = "connected"
       \/ last.pc = "loop" /\ last.i >= last.attempts
    /\ last' = [last EXCEPT !.err = last.pingErr,
                    !.pc = IF last.pingErr = Nil THEN "serving" ELSE "aborted"]
    /\ UNCHANGED <<catalog, favorites>>

NextConnect == Ping \/ Sleep \/ StartOrAbort

SpecConnect == InitConnect /\ [][NextConnect]_vars

\* C25: the retry loop ends after at most attempts pings (attempts = DBRetryMax,
\* or 8 when DBRetryMax <= 0); it succeeds at the first successful ping without
\* further pings; if every ping fails the last ping error is reported and
\* start-up is aborted; the server never serves without one successful ping.
C25_RetryBounded ==
    LET n == Len(last.pinged)
        attempts == IF last.DBRetryMax <= 0 THEN 8 ELSE last.DBRetryMax
    IN  /\ n <= attempts
        /\ \A k \in 1..(n - 1) : last.pinged[k] # Nil
        /\ last.pc \in {"connected", "serving"} => n >= 1 /\ last.pinged[n] = Nil
        /\ last.pc = "serving" => last.err = Nil
        /\ last.pc = "aborted" =>
              /\ n = attempts
              /\ last.pinged[n] # Nil
              /\ last.err = last.pinged[n]

\* Every one of the default 8 pings failed and start-up was aborted with the
\* error of the eighth.
C25_Witness ==
    /\ last.pc = "aborted"
    /\ last.DBRetryMax <= 0
    /\ Len(last.pinged) = 8
    /\ last.err = <<8>>

\* The third ping succeeded and the server serves.
C25_WitnessServing ==
    /\ last.pc = "serving"
    /\ Len(last.pinged) = 3
    /\ Len(last.waits) = 2

\* min(backoff * 2^i, 5 s), doubled step by step below the cap, where no bit is
\* lost.
RECURSIVE CappedDoubling(_, _)
CappedDoubling(backoff, i) ==
    IF i = 0 THEN (IF Less(MaxWait, backoff) THEN MaxWait ELSE backoff)
    ELSE LET half == CappedDoubling(backoff, i - 1)
             twice == Shl(half, 1)
         IN  IF Less(MaxWait, twice) THEN MaxWait ELSE twice

\* The backoff the claim names for the configuration of the process.
ClaimedBackoff ==
    IF ~Less(ZeroDuration, last.DBRetryBackoff) THEN DefaultBackoff
    ELSE last.DBRetryBackoff

\* The wait before retry i, counted from 0, is as the claim says; it is enough
\* to look at the wait slept last, every wait having been the last one.
WaitAsClaimed(i) ==
    /\ last.waits[i + 1] = CappedDoubling(ClaimedBackoff, i)
    /\ Less(ZeroDuration, last.waits[i + 1])
    /\ ~Less(MaxWait, last.waits[i + 1])
    /\ i > 0 => ~Less(last.waits[i + 1], last.waits[i])

\* C26: the wait before retry i is min(backoff * 2^i, 5 s), with backoff =
\* DBRetryBackoff, or 500ms when DBRetryBackoff <= 0; for every configured
\* attempt count the wait is positive, non-decreasing in i and never over 5 s.
C26_WaitDoublesToCap ==
    last.waits # << >> => WaitAsClaimed(Len(last.waits) - 1)

\* The retries before which the shift loses no bit of a backoff of a second or
\* less: a second is below 2^30 ns.
SafeRetries == 33

\* The same over the first retries only.
C26_WaitDoublesToCapEarly ==
    (last.waits # << >> /\ Len(last.waits) <= SafeRetries) =>
        WaitAsClaimed(Len(last.waits) - 1)

-----------------------------------------------------------------------------
(* The handlers: limit, offset and maxTime read from the query string.     *)

DigitChars == <<"0","1","2","3","4","5","6","7","8","9">>

DigitValue(c) == (CHOOSE k \in 1..10 : DigitChars[k] = c) - 1

\* The longest run of digits that can be an int: more digits with a leading
\* digit other than 0 are out of the range of an int64.
MaxIntDigits == 19

\* The value of a run of digits, digit by digit: n = n*10 + digit.
RECURSIVE DigitsValue(_, _)
DigitsValue(ds, n) ==
    IF ds = << >> THEN n
    ELSE DigitsValue(Tail(ds), n * 10 + DigitValue(Head(ds)))

\* strconv.Atoi: an optional sign and decimal digits, nothing else; err for any
\* other string and for a number out of range.
Atoi(s) ==
    LET signed == s # << >> /\ s[1] \in {"+", "-"}
        ds == IF signed THEN Tail(s) ELSE s
    IN  IF ds = << >> \/ \E k \in 1..Len(ds) : ds[k] \notin Digits
        THEN [err |-> TRUE, n |-> 0]
        ELSE IF Len(ds) > MaxIntDigits /\ ds[1] # "0"
        THEN [err |-> TRUE, n |-> 0]
        ELSE [err |-> FALSE,
              n |-> IF signed /\ s[1] = "-" THEN 0 - DigitsValue(ds, 0)
                    ELSE DigitsValue(ds, 0)]

\* The limit is taken whatever its size, if it is positive.
QueryLimitNoMax(v, def, max) ==
    IF v = sEmpty THEN def
    ELSE IF ~Atoi(v).err /\ Atoi(v).n > 0 THEN Atoi(v).n ELSE def

\* limit := def; if v != "" { if n, err := strconv.Atoi(v);
\*     err == nil && n > 0 && n <= max { limit = n } }
QueryLimit(v, def, max) ==
    IF v = sEmpty THEN def
    ELSE IF ~Atoi(v).err /\ Atoi(v).n > 0 /\ Atoi(v).n <= max THEN Atoi(v).n ELSE def

\* offset := 0; ... err == nil && n >= 0 { offset = n }
QueryOffset(v) ==
    IF v = sEmpty THEN 0
    ELSE IF ~Atoi(v).err /\ Atoi(v).n >= 0 THEN Atoi(v).n ELSE 0

\* var maxTimePtr *int; ... err == nil && n > 0 { maxTimePtr = &n }
QueryMaxTime(v) ==
    IF v = sEmpty THEN Nil
    ELSE IF ~Atoi(v).err /\ Atoi(v).n > 0 THEN <<Atoi(v).n>> ELSE Nil

DefaultLimit == 50

MaxQueryLimit == 200

DefaultSuggestions == 10

MaxSuggestions == 100

\* The query strings of the requests, <<limit, offset, maxTime>>: the value of
\* r.URL.Query().Get for each, empty when the parameter is missing.
QueryStrings ==
    { <<<< >>, << >>, << >>>>,
      <<<<"1">>, << >>, << >>>>,
      <<<<"2","0","0">>, << >>, << >>>>,
      <<<<"2","0","1">>, << >>, << >>>>,
      <<<<"0">>, << >>, << >>>>,
      <<<<"-","1">>, << >>, << >>>>,
      <<<<"+","5">>, << >>, << >>>>,
      <<<<"0","5","0">>, << >>, << >>>>,
      <<<<"a","b","c">>, << >>, << >>>>,
      <<<<"1","e","2">>, << >>, << >>>>,
      <<<<" ","7">>, << >>, << >>>>,
      <<<<"1","0","0">>, << >>, << >>>>,
      <<<<"1","0","1">>, << >>, << >>>>,
      <<<<"9","9","9","9","9","9","9","9","9","9","9","9","9","9","9","9","9","9","9","9">>, << >>, << >>>>,
      <<<<"-">>, << >>, << >>>>,
      <<<<"1","0"," ">>, << >>, << >>>>,
      <<<< >>, <<"1">>, << >>>>,
      <<<< >>, <<"-","1">>, << >>>>,
      <<<< >>, <<"x">>, << >>>>,
      <<<< >>, <<"0","0","7">>, << >>>>,
      <<<< >>, <<"+">>, << >>>>,
      <<<< >>, <<"9","9","9","9","9","9","9","9","9","9","9","9","9","9","9","9","9","9","9","9">>, << >>>>,
      <<<< >>, << >>, <<"2","5">>>>,
      <<<< >>, << >>, <<"0">>>>,
      <<<< >>, << >>, <<"-","5">>>>,
      <<<< >>, << >>, <<"2","m">>>>,
      <<<< >>, << >>, <<"+","2","0">>>>,
      <<<<"2","0","0">>, <<"1">>, <<"2","5">>>>,
      <<<<"2","0","1">>, <<"-","1">>, <<"0">>>>,
      <<<<"2">>, <<"2">>, <<"+","2","0">>>> }

\* The catalog and the favourites behind the handlers.
HandlerCatalog == SeqOfIds({2, 3, 4}, 1)

InitHandlers ==
    /\ catalog = HandlerCatalog
    /\ favorites = <<[UserID |-> 1, RecipeID |-> 2]>>
    /\ last = NoCall

\* Handler.ListRecipes
HandleListRecipes ==
    \E raw \in QueryStrings :
        ListRecipesWith(raw, {QueryLimit(raw[1], DefaultLimit, MaxQueryLimit)},
                        {QueryOffset(raw[2])}, {QueryMaxTime(raw[3])})

\* Handler.Match: a body that is not JSON is answered with 400 bad request.
HandleMatch ==
    \/ /\ last.op = "none"
       /\ last' = [NoCall EXCEPT !.op = "MatchWithFilters", !.status = "bad request"]
       /\ UNCHANGED <<catalog, favorites>>
    \/ \E raw \in QueryStrings :
        MatchWith(raw, {QueryLimit(raw[1], DefaultLimit, MaxQueryLimit)},
                  {QueryOffset(raw[2])}, {QueryMaxTime(raw[3])})

\* Handler.GetSuggestions: a request without a user id is answered with 401.
HandleGetSuggestions ==
    \/ /\ last.op = "none"
       /\ last' = [NoCall EXCEPT !.op = "GetSuggestions", !.status = "unauthorized"]
       /\ UNCHANGED <<catalog, favorites>>
    \/ \E raw \in QueryStrings :
        GetSuggestionsWith(raw, {QueryLimit(raw[1], DefaultSuggestions, MaxSuggestions)})

NextHandlers == HandleListRecipes \/ HandleMatch \/ HandleGetSuggestions \/ Respond

SpecHandlers == InitHandlers /\ [][NextHandlers]_vars

\* The query values that are decimal numerals, with their values.
Numerals ==
    { <<<<"1">>, 1>>,
      <<<<"2","0","0">>, 200>>,
      <<<<"2","0","1">>, 201>>,
      <<<<"0">>, 0>>,
      <<<<"-","1">>, -1>>,
      <<<<"+","5">>, 5>>,
      <<<<"0","5","0">>, 50>>,
      <<<<"1","0","0">>, 100>>,
      <<<<"1","0","1">>, 101>>,
      <<<<"0","0","7">>, 7>>,
      <<<<"2","5">>, 25>>,
      <<<<"-","5">>, -5>>,
      <<<<"+","2","0">>, 20>>,
      <<<<"2">>, 2>> }

\* The value of the parameter if it is a numeral within lo..hi, else def.
ValueOr(v, lo, hi, def) ==
    IF \E p \in Numerals : p[1] = v /\ lo <= p[2] /\ p[2] <= hi
    THEN (CHOOSE p \in Numerals : p[1] = v)[2]
    ELSE def

\* C27: for every request query string the handlers pass limit in 1..200
\* (default 50; 1..100, default 10 for suggestions), offset >= 0 (default 0) and
\* maxTime unset or > 0; an unparsable or out-of-range value falls back to the
\* default, so the slice bounds in SearchAndFilterRecipes and GetSuggestions are
\* never negative or inverted.
C27_HandlerArgumentsInRange ==
    (last.raw # Nil /\ last.status # "error") =>
        /\ last.op \in {"SearchAndFilterRecipes", "MatchWithFilters"} =>
              /\ last.limit \in 1..200
              /\ last.limit = ValueOr(last.raw[1], 1, 200, 50)
              /\ last.offset >= 0
              /\ last.offset = ValueOr(last.raw[2], 0, last.offset, 0)
              /\ last.maxTime = Nil \/ last.maxTime[1] > 0
              /\ last.maxTime =
                    IF ValueOr(last.raw[3], 1, 1000, 0) = 0 THEN Nil
                    ELSE <<ValueOr(last.raw[3], 1, 1000, 0)>>
        /\ last.op = "GetSuggestions" =>
              /\ last.limit \in 1..100
              /\ last.limit = ValueOr(last.raw[1], 1, 100, 10)
        /\ last.status = "ok"

\* limit=201 fell back to 50 and offset=-1 to 0, and the page was cut.
C27_Witness ==
    /\ Returned("SearchAndFilterRecipes")
    /\ last.raw # Nil
    /\ Atoi(last.raw[1]).n = 201 /\ last.limit = 50
    /\ Atoi(last.raw[2]).n = 0 - 1 /\ last.offset = 0
    /\ last.candidates # << >>

\* limit=101 fell back to 10 for the suggestions.
C27_WitnessSuggestions ==
    /\ Returned("GetSuggestions")
    /\ last.raw # Nil
    /\ Atoi(last.raw[1]).n = 101 /\ last.limit = 10
    /\ last.out # << >>

-----------------------------------------------------------------------------
(* Favourites that cannot be read (SpecSession).                           *)

\* The positions of the favourites of the call whose recipe was read.
ReadPositions == DOMAIN last.favs \ last.failed

\* The occurrences of the lowercased tag over the favourites read among
\* last.favs[1..n].
RECURSIVE ReadOccurrences(_, _)
ReadOccurrences(tag, n) ==
    IF n = 0 THEN 0
    ELSE ReadOccurrences(tag, n - 1)
         + (IF n \in ReadPositions THEN Occurrences(tag, last.favs[n].RecipeID) ELSE 0)

ReadTags ==
    UNION { { ToLower(t) : t \in Range(GetRecipeByID(catalog, last.favs[n].RecipeID).Tags) } :
            n \in ReadPositions }

\* C28: a favourite whose full recipe cannot be read does not fail
\* GetSuggestions: it contributes no weights, the other favourites are
\* profiled and a result is returned; a call that ends in an error (the listing
\* of the favourites or the candidate search failed) returns no results.
C28_UnreadFavouriteSkipped ==
    last.op = "GetSuggestions" =>
        /\ (last.failed # {} /\ last.limit >= 0) => last.status = "ok"
        /\ last.status = "ok" =>
              /\ DOMAIN last.weights = ReadTags
              /\ \A tag \in ReadTags :
                    last.weights[tag] = ReadOccurrences(tag, Len(last.favs))
        /\ last.status = "error" => last.out = << >> /\ last.scored = << >>

\* The first of two favourites could not be read, the second was profiled and
\* suggestions were returned.
C28_Witness ==
    /\ Returned("GetSuggestions")
    /\ Len(last.favs) = 2
    /\ last.failed = {1}
    /\ last.weights # EmptyMap
    /\ last.out # << >>

-----------------------------------------------------------------------------
(* The candidate pool of GetSuggestions over a long catalog.               *)

\* Row i of the catalog: the first row, the row at the suggestion floor, the
\* row after it and the row after the fetch cap are tagged pasta, the second
\* row soup, the others carry no tag.
PoolRow(i) ==
    Recipe(i, sPlainRice,
           IF i \in {1, SuggestionFloor, SuggestionFloor + 1, FetchCap + 1} THEN <<sPasta>>
           ELSE IF i = 2 THEN <<sSoup>> ELSE << >>,
           NullStr, NullStr, NullInt)

\* Catalogs that end at the suggestion floor, one row after it, and one row
\* after the fetch cap.
PoolCatalogs ==
    { [i \in 1..n |-> PoolRow(i)] : n \in {SuggestionFloor, SuggestionFloor + 1, FetchCap + 1} }

\* Limits the handler passes (1..100), 0, and the first limit whose fivefold
\* is over the fetch cap.
PoolLimits == {0, 1, 2, 21, (FetchCap \div SuggestionFactor) + 1}

\* The favourites of user 1: none, the first recipe, the first two.
PoolFavorites ==
    { << >>,
      <<[UserID |-> 1, RecipeID |-> 1]>>,
      <<[UserID |-> 1, RecipeID |-> 1], [UserID |-> 1, RecipeID |-> 2]>> }

InitPool ==
    /\ catalog \in PoolCatalogs
    /\ favorites \in PoolFavorites
    /\ last = NoCall

\* Handler.GetSuggestions -> Service.GetSuggestions over the long catalog.
SuggestFromPool == GetSuggestionsWith(Nil, PoolLimits)

NextPool == SuggestFromPool \/ ListFavorites \/ Respond

SpecPool == InitPool /\ [][NextPool]_vars

\* The first n rows of the catalog.
CatalogPrefix(n) == SubSeq(catalog, 1, Min(n, Len(catalog)))

C29_WitnessCapped ==
    /\ Returned("GetSuggestions")
    /\ last.limit > 400
    /\ Len(catalog) > 2000
    /\ Len(last.candidates) = 2000

-----------------------------------------------------------------------------
(* Tags a recipe lists more than once (SpecSession).                       *)

\* The number of times the tag list holds the lowercased tag.
Multiplicity(tags, tag) == Cardinality({ j \in DOMAIN tags : ToLower(tags[j]) = tag })

DistinctTags(tags) == { ToLower(tags[j]) : j \in DOMAIN tags }

\* The sum over the distinct tags of: times listed, times the factor of the tag.
RECURSIVE PerOccurrence(_, _, _)
PerOccurrence(distinct, tags, factor) ==
    IF distinct = {} THEN 0
    ELSE LET tag == CHOOSE t \in distinct : TRUE
         IN  Multiplicity(tags, tag) * factor[tag]
             + PerOccurrence(distinct \ {tag}, tags, factor)

\* 1 for a tag that is an ingredient of the call, 0 for any other.
MatchFactor(tags) ==
    [tag \in DistinctTags(tags) |->
        IF tag \in IngredientSet(last.ingredients) THEN 1 ELSE 0]

\* The preference weight of each tag.
WeightFactor(tags) ==
    [tag \in DistinctTags(tags) |-> WeightOf(last.weights, tag)]

\* The times the favourites read by the call list the tag.
ListedByFavourites(tag) ==
    LET listed == [n \in ReadPositions |->
                      Multiplicity(GetRecipeByID(catalog, last.favs[n].RecipeID).Tags, tag)]
        Sum[S \in SUBSET ReadPositions] ==
            IF S = {} THEN 0
            ELSE LET n == CHOOSE x \in S : TRUE IN listed[n] + Sum[S \ {n}]
    IN  Sum[ReadPositions]

C30_WitnessMatch ==
    /\ Returned("MatchRecipes")
    /\ IngredientSet(last.ingredients) = {sPasta}
    /\ \E k \in DOMAIN last.out :
          /\ Multiplicity(GetRecipeByID(catalog, last.out[k].ID).Tags, sPasta) = 2
          /\ last.out[k].Score = 3

=============================================================================
